---- MODULE Spec2Model ----
(***************************************************************************)
(* Model of the install orchestrator (internal/installer), its             *)
(* collaborators and the bubbletea front end (tui) that drains its event   *)
(* channel and answers bin-selection requests.                             *)
(***************************************************************************)
EXTENDS Integers, Sequences, FiniteSets, TLC

\* ---------------------------------------------------------------------------
\* Program constants
\* ---------------------------------------------------------------------------
workerCount == 3

MaxAttempts == 3

EventsPerProgram == 8

\* ---------------------------------------------------------------------------
\* Bounds of the model
\* ---------------------------------------------------------------------------
\* number of programs the pool scenarios select beyond the size of the pool
ExtraPrograms == 1

\* largest number of bins the operator adds in one picker session
MaxAdded == 2

\* longest release tag the resolver is tried on
MaxTagLen == 3

\* largest number of entries in an archive the extractor is tried on
MaxEntries == 2

\* ---------------------------------------------------------------------------
\* installer.State
\* ---------------------------------------------------------------------------
StatePending == "pending"
StateFetchingVersion == "fetching version"
StateDownloading == "downloading"
StateExtracting == "extracting"
StateAwaitingBinSelection == "awaiting bin selection"
StateLinking == "linking"
StateDone == "done"
StateSkipped == "skipped"
StateError == "error"

TerminalStates == {StateDone, StateSkipped, StateError}

NoErr == <<>>
NoVersion == <<>>
ErrCanceled == "context canceled"

\* ---------------------------------------------------------------------------
\* Strings are sequences of one-character strings.
\* ---------------------------------------------------------------------------
\* characters that have no escape are written by their code point
\* unicode.IsSpace, the white space strings.TrimSpace cuts off
IsSpace(c) ==
    c \in {" ", "\n", "\t", "\r", "\f", "U+000B", "U+0085", "U+00A0", "U+1680",
           "U+2000", "U+2001", "U+2002", "U+2003", "U+2004", "U+2005", "U+2006",
           "U+2007", "U+2008", "U+2009", "U+200A", "U+2028", "U+2029", "U+202F",
           "U+205F", "U+3000"}

RECURSIVE TrimLeft(_)
TrimLeft(s) == IF s # <<>> /\ IsSpace(Head(s)) THEN TrimLeft(Tail(s)) ELSE s

RECURSIVE TrimRight(_)
TrimRight(s) ==
    IF s # <<>> /\ IsSpace(s[Len(s)]) THEN TrimRight(SubSeq(s, 1, Len(s) - 1)) ELSE s

TrimSpace(s) == TrimRight(TrimLeft(s))

TrimPrefix(s, c) == IF s # <<>> /\ Head(s) = c THEN Tail(s) ELSE s

\* strings.HasSuffix
HasSuffix(s, suffix) ==
    /\ Len(suffix) <= Len(s)
    /\ SubSeq(s, Len(s) - Len(suffix) + 1, Len(s)) = suffix

\* strings.ReplaceAll(s, "{version}", v); the placeholder is one element of s
RECURSIVE ReplaceAll(_, _)
ReplaceAll(s, v) ==
    IF s = <<>> THEN <<>>
    ELSE (IF Head(s) = "{version}" THEN v ELSE <<Head(s)>>) \o ReplaceAll(Tail(s), v)

\* ---------------------------------------------------------------------------
\* catalog.Program descriptors and the scenarios a run starts from
\* ---------------------------------------------------------------------------
Bin(src, dst) == [Src |-> src, Dst |-> dst]

\* Repo "missing" has no repository behind it; AssetPattern is a file name
\* that may hold the placeholder {version}; an empty Bin list leaves the links
\* to the operator
Program(repo, asset, bin) ==
    [Repo |-> repo, AssetPattern |-> asset, Packages |-> <<>>, Bin |-> bin]

\* the program with the system commands it requires
Needs(prog, packages) == [prog EXCEPT !.Packages = packages]

Tgz == <<"a", ".", "t", "g", "z">>
VersionedZip == <<"a", "-", "{version}", ".", "z", "i", "p">>
RawName == <<"a">>
Unpublished == <<"w", ".", "z", "i", "p">>

Good1 == Program("r", Tgz, <<Bin(<<"a">>, <<"x">>)>>)
Good2 ==
    Program("r", VersionedZip,
            <<Bin(<<"a">>, <<"x">>), Bin(<<"b", "-", "{version}">>, <<"y">>)>>)
Interactive == Program("r", RawName, <<>>)
BadRepo == Program("missing", Tgz, <<Bin(<<"a">>, <<"x">>)>>)
BadAsset == Program("r", Unpublished, <<Bin(<<"a">>, <<"y">>)>>)

\* the assets a release with the tag given has
ReleaseAssets(tag) == { Tgz, RawName, ReplaceAll(VersionedZip, TrimPrefix(tag, "v")) }

\* a version marker file: whether it is there, whether its mode lets
\* os.ReadFile read it, and its content: missing, holding the latest version
\* (as written, or with the line end an editor leaves), holding something
\* else, or holding the latest version but unreadable
NoFile == [exists |-> FALSE, readable |-> FALSE, content |-> <<>>]
Exact == [exists |-> TRUE, readable |-> TRUE, content |-> <<"1">>]
UpToDate == [exists |-> TRUE, readable |-> TRUE, content |-> <<"1", "\n">>]
UpToDateCRLF == [exists |-> TRUE, readable |-> TRUE, content |-> <<"1", "\r", "\n">>]
Stale == [exists |-> TRUE, readable |-> TRUE, content |-> <<"0">>]
Unreadable == [exists |-> TRUE, readable |-> FALSE, content |-> <<"1">>]
Markers == {NoFile, Exact, UpToDate, UpToDateCRLF, Stale, Unreadable}

Absent == [kind |-> "absent"]
RegularFile == [kind |-> "file"]
Symlink(target) == [kind |-> "symlink", target |-> target]
LinkNames == {<<"x">>, <<"y">>}

EmptyBinDir == [n \in LinkNames |-> Absent]
BinDirs ==
    { EmptyBinDir,
      [n \in LinkNames |-> IF n = <<"x">> THEN RegularFile ELSE Absent],
      [n \in LinkNames |-> IF n = <<"x">> THEN Symlink(<<0, <<"o">>>>) ELSE Absent] }

\* A scenario: the selected programs, the files found on disk, the calls
\* that may fail for a reason outside the program (faults), whether a signal
\* may cancel the run (signal), and the link names the operator types into
\* the picker (typed)
Scenario(c, m, b, f, g, t) ==
    [programs |-> c, marker |-> m, binDir |-> b, faults |-> f, signal |-> g, typed |-> t,
     path |-> {}, watch |-> 1..Len(c)]

\* the scenario with the history of the cancellation kept for the programs
\* given only
Watching(sc, ps) == [sc EXCEPT !.watch = ps]

\* the scenario on a machine where the commands given are found on PATH
OnPath(sc, commands) == [sc EXCEPT !.path = commands]

NetFaults == {"resolve", "download"}
DiskFaults == {"extract", "link"}

\* files the operator can pick in the extraction directory and names they type
PickerFiles == { <<"d", "/", "x">> }
PickerNames == { <<"x">>, <<" ", "y">>, <<" ">> }

\* one program: every marker with a failing network, every bin directory
\* with failing file operations, and one run in which everything may fail
ScenariosOne ==
    { Scenario(<<Good1>>, <<m>>, EmptyBinDir, NetFaults, TRUE, {}) : m \in Markers }
    \cup { Scenario(<<c>>, <<NoFile>>, b, DiskFaults, TRUE, PickerNames) :
             c \in {Good2, Interactive}, b \in BinDirs }
    \cup { Scenario(<<Good1>>, <<NoFile>>, EmptyBinDir, NetFaults \cup DiskFaults, FALSE, {}) }

\* two programs running side by side, no fault: two that ask for their links,
\* and one that sleeps between its retries beside one that installs, in a run
\* that may be cancelled
ScenariosPair ==
    { Scenario(<<Interactive, Interactive>>, <<NoFile, NoFile>>, EmptyBinDir, {}, FALSE,
               {<<" ", "y">>}),
      Scenario(<<BadAsset, Good1>>, <<NoFile, NoFile>>, EmptyBinDir, {}, TRUE, {}) }

\* two programs that publish a link of the same name, which is free or a
\* symbolic link when they start; no fault
ScenariosContend ==
    { Scenario(<<Good1, Good1>>, <<NoFile, NoFile>>, b, {}, FALSE, {}) :
        b \in { d \in BinDirs : d[<<"x">>].kind # "file" } }

\* more programs than the pool has slots: the third is up to date, the
\* others fail when their version is resolved
PoolKind(i) == IF i = 3 THEN Good1 ELSE BadRepo

PoolMarker(i) == IF i = 3 THEN UpToDate ELSE NoFile

PoolCatalog == [i \in 1..(workerCount + ExtraPrograms) |-> PoolKind(i)]

ScenariosPool ==
    { Scenario(PoolCatalog, [i \in 1..Len(PoolCatalog) |-> PoolMarker(i)], EmptyBinDir,
               {}, FALSE, {}) }

\* programs that require system commands, on machines that have some of them;
\* and an empty selection
ScenariosPreflight ==
    { OnPath(Scenario(<<Needs(Good1, <<"tar">>), Needs(BadAsset, <<"tar", "git">>)>>,
                      <<NoFile, NoFile>>, EmptyBinDir, {}, FALSE, {}), commands) :
        commands \in SUBSET {"tar", "git"} }
    \cup { Scenario(<<>>, <<>>, EmptyBinDir, {}, FALSE, {}) }

Scenarios ==
    ScenariosOne \cup ScenariosPair \cup ScenariosContend \cup ScenariosPool
      \cup ScenariosPreflight

\* ---------------------------------------------------------------------------
\* State
\* ---------------------------------------------------------------------------
VARIABLES
    programs,     \* the selected catalog.Program list handed to Run
    world,        \* what the scenario lets the environment do
    marker,       \* content of ~/.local/share/<name>/.version per program
    binDir,       \* what lies at ~/.local/bin/<dst> per link name
    cancelled,    \* ctx.Done() is closed
    next,         \* index of the program the Run loop admits next
    sem,          \* tokens held in the sem channel
    pc,           \* position of each program's goroutine
    version,      \* install(): version
    attempt,      \* downloadWithRetry(): attempt
    lastErr,      \* downloadWithRetry(): lastErr
    tmpFile,      \* install(): tmpFile is set (download succeeded)
    tmpCount,     \* temporary files of the task that exist on disk
    bins,         \* the link list the task publishes
    linkIdx,      \* position of the linking loop
    ch,           \* the progress channel (buffered)
    chClosed,     \* close(ch) has run
    binCh,        \* per request reply channel
    emitted,      \* history: every message a program has sent, in order
    calls,        \* history: collaborator calls made per program
    linked,       \* history: Link calls per program with their result
    dl,           \* history: the error of each download attempt (NoErr: success)
    answered,     \* history: the bins confirmed in the picker opened for a program
    hist,         \* history: what each program's calls were given and did
    cancelAt,     \* history: where each watched task waited when ctx was cancelled
    screen,       \* RootModel.screen
    entries,      \* progressModel.entries[*].state
    pickerQueue,  \* progressModel.pickerQueue
    activePicker, \* RootModel.activePicker (0 = nil)
    picker,       \* RootModel.picker
    fdone,        \* progressModel.done
    reading,      \* a waitForProgress command is outstanding
    inbox,        \* what the command returned and Update has not handled yet
    preflight,    \* RootModel.preflight.missing
    trial         \* a function called on its own: its arguments and its result

taskVars == <<marker, binDir, next, sem, pc, version, attempt, lastErr, tmpFile,
              tmpCount, bins, linkIdx, ch, chClosed, binCh, emitted, calls, linked, dl,
              answered, hist>>
feVars == <<screen, entries, pickerQueue, activePicker, picker, fdone, reading, inbox,
           preflight>>
vars == <<programs, world, trial, cancelled, cancelAt, taskVars, feVars>>

N == Len(programs)
Progs == 1..N

\* a channel with one place per program
CapPerProgram == N

\* Run: make(chan ProgressMsg, len(programs)*8)
Cap == N * EventsPerProgram

\* nothing has happened yet: resp is the resolver's response, url the download
\* URL the task built, got the response
\* of each download attempt, slept the back-off delays slept in full, how the
\* strategy the extractor took, wrote
\* the result of writing the marker, found what os.Lstat saw in each Link
\* call, sends and closes what the front end did with the reply channel
NoHist == [resp |-> <<>>, url |-> <<>>, got |-> <<>>, slept |-> <<>>, how |-> "none",
           wrote |-> "none", found |-> <<>>,
           sends |-> 0, closes |-> 0]

NoPicker == [phase |-> "none", selectedSrc |-> <<>>, added |-> <<>>]

InitFrom(sc) ==
    /\ programs = sc.programs
    /\ world = [faults |-> sc.faults, signal |-> sc.signal, typed |-> sc.typed,
                watch |-> sc.watch,
                marker0 |-> sc.marker, binDir0 |-> sc.binDir, path |-> sc.path]
    /\ marker = sc.marker
    /\ binDir = sc.binDir
    /\ cancelled = FALSE
    /\ next = 0
    /\ sem = 0
    /\ pc = [p \in 1..Len(sc.programs) |-> "waiting"]
    /\ version = [p \in 1..Len(sc.programs) |-> NoVersion]
    /\ attempt = [p \in 1..Len(sc.programs) |-> 0]
    /\ lastErr = [p \in 1..Len(sc.programs) |-> NoErr]
    /\ tmpFile = [p \in 1..Len(sc.programs) |-> FALSE]
    /\ tmpCount = [p \in 1..Len(sc.programs) |-> 0]
    /\ bins = [p \in 1..Len(sc.programs) |-> sc.programs[p].Bin]
    /\ linkIdx = [p \in 1..Len(sc.programs) |-> 1]
    /\ ch = <<>>
    /\ chClosed = FALSE
    /\ binCh = [p \in 1..Len(sc.programs) |-> [st |-> "none", val |-> <<>>]]
    /\ emitted = [p \in 1..Len(sc.programs) |-> <<>>]
    /\ calls = [p \in 1..Len(sc.programs) |-> [resolve |-> 0, download |-> 0, extract |-> 0]]
    /\ linked = [p \in 1..Len(sc.programs) |-> <<>>]
    /\ dl = [p \in 1..Len(sc.programs) |-> <<>>]
    /\ answered = [p \in 1..Len(sc.programs) |-> [done |-> FALSE, val |-> <<>>]]
    /\ hist = [p \in 1..Len(sc.programs) |-> NoHist]
    /\ cancelAt = [p \in 1..Len(sc.programs) |-> "none"]
    /\ screen = "selector"
    /\ preflight = <<>>
    /\ entries = [p \in 1..Len(sc.programs) |->
                   [state |-> StatePending, version |-> NoVersion, err |-> NoErr]]
    /\ pickerQueue = <<>>
    /\ activePicker = 0
    /\ picker = NoPicker
    /\ fdone = FALSE
    /\ reading = FALSE
    /\ inbox = <<>>

\* no function is called on its own during a run
NoTrial == [fn |-> "none"]

Init == trial = NoTrial /\ \E sc \in Scenarios : InitFrom(sc)

\* ---------------------------------------------------------------------------
\* Collaborators, computed as the code computes them
\* ---------------------------------------------------------------------------
ResolverOK == [do |-> "ok", status |-> "200", decode |-> "ok", tag |-> <<"v", "1">>]

\* what the GitHub API answers for the repository of program p
ResolverBase(p) ==
    IF programs[p].Repo = "missing" THEN [ResolverOK EXCEPT !.status = "404"] ELSE ResolverOK

ResolverFaults ==
    { [ResolverOK EXCEPT !.do = "connection refused"],
      [ResolverOK EXCEPT !.status = "403"],
      [ResolverOK EXCEPT !.status = "429"],
      [ResolverOK EXCEPT !.status = "500"],
      [ResolverOK EXCEPT !.decode = "bad json"],
      [ResolverOK EXCEPT !.tag = <<"v">>],
      [ResolverOK EXCEPT !.tag = <<>>],
      [ResolverOK EXCEPT !.tag = <<"1">>] }

\* the body as Decode reads it: Decode does not look at the context; with a
\* cancelled context the read breaks off unless the bytes have arrived already
BodyDecoded(resp) ==
    IF cancelled THEN {resp, [resp EXCEPT !.decode = ErrCanceled]} ELSE {resp}

\* an http call made with a cancelled context returns the context's error
ResolverResponses(p) ==
    IF cancelled
    THEN { [ResolverOK EXCEPT !.do = ErrCanceled] }
    ELSE { ResolverBase(p) } \cup (IF "resolve" \in world.faults THEN ResolverFaults ELSE {})

\* a resolver that reports every status other than 200 alike
LatestVersionConflated(resp) ==
    IF resp.do # "ok"
    THEN [version |-> NoVersion, err |-> <<"github request", resp.do>>]
    ELSE IF resp.status # "200"
    THEN [version |-> NoVersion, err |-> <<"unexpected status", resp.status>>]
    ELSE IF resp.decode # "ok"
    THEN [version |-> NoVersion, err |-> <<"decode", resp.decode>>]
    ELSE LET v == TrimPrefix(resp.tag, "v")
         IN IF v = <<>>
            THEN [version |-> NoVersion, err |-> <<"empty tag_name">>]
            ELSE [version |-> v, err |-> NoErr]

\* github.Client.LatestVersion
LatestVersion(resp) ==
    IF resp.do # "ok"
    THEN [version |-> NoVersion, err |-> <<"github request", resp.do>>]
    ELSE IF resp.status = "404"
    THEN [version |-> NoVersion, err |-> <<"not found">>]
    ELSE IF resp.status \in {"403", "429"}
    THEN [version |-> NoVersion, err |-> <<"rate limited">>]
    ELSE IF resp.status # "200"
    THEN [version |-> NoVersion, err |-> <<"unexpected status", resp.status>>]
    ELSE IF resp.decode # "ok"
    THEN [version |-> NoVersion, err |-> <<"decode", resp.decode>>]
    ELSE LET v == TrimPrefix(resp.tag, "v")
         IN IF v = <<>>
            THEN [version |-> NoVersion, err |-> <<"empty tag_name">>]
            ELSE [version |-> v, err |-> NoErr]

\* a resolver that hands out the normalized version as the tag
LatestReleaseNoRaw(resp) ==
    LET r == LatestVersion(resp)
    IN [tag |-> r.version, version |-> r.version, err |-> r.err]

\* github.Client.LatestRelease: Release{Tag, Version} and the error
LatestRelease(resp) ==
    IF resp.do # "ok"
    THEN [tag |-> <<>>, version |-> NoVersion, err |-> <<"github request", resp.do>>]
    ELSE IF resp.status = "404"
    THEN [tag |-> <<>>, version |-> NoVersion, err |-> <<"not found">>]
    ELSE IF resp.status \in {"403", "429"}
    THEN [tag |-> <<>>, version |-> NoVersion, err |-> <<"rate limited">>]
    ELSE IF resp.status # "200"
    THEN [tag |-> <<>>, version |-> NoVersion, err |-> <<"unexpected status", resp.status>>]
    ELSE IF resp.decode # "ok"
    THEN [tag |-> <<>>, version |-> NoVersion, err |-> <<"decode", resp.decode>>]
    ELSE LET tag == resp.tag
             v == TrimPrefix(tag, "v")
         IN IF v = <<>>
            THEN [tag |-> <<>>, version |-> NoVersion, err |-> <<"empty tag_name">>]
            ELSE [tag |-> tag, version |-> v, err |-> NoErr]

DownloadOK == [do |-> "ok", status |-> "200", contentLength |-> 5, body |-> 5,
               create |-> "ok", copy |-> "ok"]

\* what github.com answers for the URL program p asks for: the asset when the
\* URL names the tag of the release and one of its assets
DownloadBase(p) ==
    IF /\ hist[p].url.tag = hist[p].resp.tag
       /\ hist[p].url.asset \in ReleaseAssets(hist[p].resp.tag)
    THEN DownloadOK
    ELSE [DownloadOK EXCEPT !.status = "404"]

DownloadFaults ==
    { [DownloadOK EXCEPT !.do = "connection reset"],
      [DownloadOK EXCEPT !.status = "503"],
      [DownloadOK EXCEPT !.contentLength = 0, !.body = 0],
      [DownloadOK EXCEPT !.contentLength = -1, !.body = 0],
      [DownloadOK EXCEPT !.create = "no space"],
      [DownloadOK EXCEPT !.copy = "unexpected EOF"] }

\* with a cancelled context the request fails
DownloadResponses(p) ==
    IF cancelled
    THEN { [DownloadOK EXCEPT !.do = ErrCanceled] }
    ELSE { DownloadBase(p) } \cup (IF "download" \in world.faults THEN DownloadFaults ELSE {})

\* what can go wrong between download and linking: MkdirAll fails (mkdir), the
\* temporary file cannot be opened (extract), its bytes are no archive
\* (corrupt), the marker cannot be opened for writing (nowrite) or is opened
\* and then not written (partial); a marker m whose mode keeps the user from
\* reading it may keep the user from writing it as well
ExtractOutcomes(m) ==
    IF "extract" \in world.faults
    THEN {"ok", "mkdir", "extract", "corrupt", "nowrite", "partial"}
    ELSE IF m.exists /\ ~m.readable THEN {"ok", "nowrite"}
    ELSE {"ok"}

\* a download that forgets the temporary file when the copy fails
downloadLeaky(resp) ==
    IF resp.do # "ok"
    THEN [ok |-> FALSE, err |-> <<resp.do>>, created |-> 0, left |-> 0]
    ELSE IF resp.status # "200"
    THEN [ok |-> FALSE, err |-> <<"download returned status", resp.status>>,
          created |-> 0, left |-> 0]
    ELSE IF resp.contentLength = 0
    THEN [ok |-> FALSE, err |-> <<"empty response body">>, created |-> 0, left |-> 0]
    ELSE IF resp.create # "ok"
    THEN [ok |-> FALSE, err |-> <<resp.create>>, created |-> 0, left |-> 0]
    ELSE IF resp.copy # "ok"
    THEN [ok |-> FALSE, err |-> <<resp.copy>>, created |-> 1, left |-> 1]
    ELSE [ok |-> TRUE, err |-> NoErr, created |-> 1, left |-> 1]

\* installer.download: created is the number of temporary files the attempt
\* created, left the number it left on disk
download(resp) ==
    IF resp.do # "ok"
    THEN [ok |-> FALSE, err |-> <<resp.do>>, created |-> 0, left |-> 0]
    ELSE IF resp.status # "200"
    THEN [ok |-> FALSE, err |-> <<"download returned status", resp.status>>,
          created |-> 0, left |-> 0]
    ELSE IF resp.contentLength = 0
    THEN [ok |-> FALSE, err |-> <<"empty response body">>, created |-> 0, left |-> 0]
    ELSE IF resp.create # "ok"
    THEN [ok |-> FALSE, err |-> <<resp.create>>, created |-> 0, left |-> 0]
    ELSE IF resp.copy # "ok"
    THEN [ok |-> FALSE, err |-> <<resp.copy>>, created |-> 1, left |-> 0]
    ELSE [ok |-> TRUE, err |-> NoErr, created |-> 1, left |-> 1]

\* the body as io.Copy reads it: io.Copy does not look at the context; with a
\* cancelled context the read breaks off unless the bytes have arrived already
BodyRead(resp) ==
    IF cancelled THEN {resp, [resp EXCEPT !.copy = ErrCanceled]} ELSE {resp}

\* ---------------------------------------------------------------------------
\* internal/linker: Link is three system calls on binDir/dst
\* ---------------------------------------------------------------------------
RemoveFaults == IF "link" \in world.faults THEN {"none", "remove"} ELSE {"none"}
SymlinkFaults == IF "link" \in world.faults THEN {"none", "symlink"} ELSE {"none"}

\* Link: what follows os.Lstat(target): a symbolic link is removed, a regular
\* file is refused, and where nothing is found the link is created
LinkBranch(found) ==
    IF found.kind = "absent" THEN "symlink"
    ELSE IF found.kind = "symlink" THEN "remove"
    ELSE "refuse"

\* os.Remove(target): fails when nothing is there (any more)
Remove(entry, fault) ==
    IF entry.kind = "absent" \/ fault = "remove"
    THEN [err |-> <<"remove existing symlink">>, entry |-> entry]
    ELSE [err |-> NoErr, entry |-> Absent]

\* os.Symlink(src, target): fails when something is there
MakeSymlink(entry, src, fault) ==
    IF entry.kind # "absent" \/ fault = "symlink"
    THEN [err |-> <<"create symlink">>, entry |-> entry]
    ELSE [err |-> NoErr, entry |-> Symlink(src)]

\* ---------------------------------------------------------------------------
\* internal/extractor.  A path is a sequence of components below the
\* destination directory, a directory a set of nodes, an artifact the bytes of
\* a file: the container they really are, the entries packed in it, whether
\* the archive is intact, and an identifier (bytes) of the byte string.
\* ---------------------------------------------------------------------------
Node(path, kind, mode, data) == [path |-> path, kind |-> kind, mode |-> mode, data |-> data]

EmptyDir == {}

KindAt(dir, path) ==
    IF path = <<>> THEN "dir"
    ELSE IF \E n \in dir : n.path = path
    THEN (CHOOSE n \in dir : n.path = path).kind
    ELSE "none"

Prefixes(path) == { SubSeq(path, 1, k) : k \in 1..Len(path) }

\* filepath.Dir
Parent(path) == IF path = <<>> THEN <<>> ELSE SubSeq(path, 1, Len(path) - 1)

\* os.MkdirAll below the destination; it fails, leaving the directory as it
\* is, when a file is in the way
MkdirAll(dir, path) ==
    IF \E q \in Prefixes(path) : KindAt(dir, q) = "file"
    THEN dir
    ELSE dir \cup { Node(q, "dir", "0755", 0) : q \in { r \in Prefixes(path) : KindAt(dir, r) = "none" } }

\* os.OpenFile(target, O_CREATE|O_WRONLY|O_TRUNC, mode) followed by io.Copy:
\* a new file gets the mode, an existing one keeps its mode and loses its data
OpenFile(dir, path, mode, data) ==
    IF path = <<>> \/ KindAt(dir, Parent(path)) # "dir" \/ KindAt(dir, path) = "dir"
    THEN [ok |-> FALSE, dir |-> dir]
    ELSE IF KindAt(dir, path) = "file"
    THEN LET old == CHOOSE n \in dir : n.path = path
         IN [ok |-> TRUE, dir |-> (dir \ {old}) \cup {Node(path, "file", old.mode, data)}]
    ELSE [ok |-> TRUE, dir |-> dir \cup {Node(path, "file", mode, data)}]

\* filepath.Clean("/" + name)[1:] on the components of name
RECURSIVE CleanFrom(_, _)
CleanFrom(stack, rest) ==
    IF rest = <<>> THEN stack
    ELSE IF Head(rest) \in {".", ""} THEN CleanFrom(stack, Tail(rest))
    ELSE IF Head(rest) = ".." THEN CleanFrom(Parent(stack), Tail(rest))
    ELSE CleanFrom(Append(stack, Head(rest)), Tail(rest))

\* an entry name taken as it is
SanitizeNone(name) == name

Sanitize(name) == CleanFrom(<<>>, name)

\* filepath.Join(dstDir, rel), as a path relative to dstDir: Join cleans the
\* result, so a ".." that has nothing left to remove climbs out of dstDir
RECURSIVE JoinFrom(_, _)
JoinFrom(stack, rest) ==
    IF rest = <<>> THEN stack
    ELSE IF Head(rest) \in {".", ""} THEN JoinFrom(stack, Tail(rest))
    ELSE IF Head(rest) = ".." /\ stack # <<>> /\ stack[Len(stack)] # ".."
    THEN JoinFrom(Parent(stack), Tail(rest))
    ELSE JoinFrom(Append(stack, Head(rest)), Tail(rest))

Join(rel) == JoinFrom(<<>>, rel)

\* extractTar: the loop over the entries of the tar stream
RECURSIVE TarEntries(_, _)
TarEntries(es, dir) ==
    IF es = <<>> THEN [err |-> NoErr, dir |-> dir]
    ELSE LET e == Head(es)
             target == Join(Sanitize(e.name))
         IN IF e.type = "dir" THEN TarEntries(Tail(es), MkdirAll(dir, target))
            ELSE IF e.type = "reg"
            THEN LET made == MkdirAll(dir, Parent(target))
                     o == OpenFile(made, target, "hdr", e.data)
                 IN IF o.ok THEN TarEntries(Tail(es), o.dir)
                    ELSE [err |-> <<"open file">>, dir |-> made]
            ELSE TarEntries(Tail(es), dir)

\* extractTar: os.Open(srcPath), whose error is returned as it is, the reader
\* of the compression, then the entries of the tar stream
extractTar(art, dir, compression, fs) ==
    IF fs = "open" THEN [err |-> <<"open">>, dir |-> dir]
    ELSE IF compression = "gz" /\ art.container # "gz"
    THEN [err |-> <<"open gzip">>, dir |-> dir]
    ELSE IF compression = "xz" /\ art.container # "xz"
    THEN [err |-> <<"open xz">>, dir |-> dir]
    ELSE IF art.container # compression
    THEN [err |-> <<"read tar">>, dir |-> dir]
    ELSE LET r == TarEntries(art.entries, dir)
         IN IF r.err = NoErr /\ ~art.intact
            THEN [err |-> <<"read tar">>, dir |-> r.dir]
            ELSE r

\* extractZip: the loop over r.File
RECURSIVE ZipEntries(_, _)
ZipEntries(es, dir) ==
    IF es = <<>> THEN [err |-> NoErr, dir |-> dir]
    ELSE LET e == Head(es)
             target == Join(Sanitize(e.name))
         IN IF e.type = "dir" THEN ZipEntries(Tail(es), MkdirAll(dir, target))
            ELSE LET made == MkdirAll(dir, Parent(target))
                     o == OpenFile(made, target, "hdr", e.data)
                 IN IF o.ok THEN ZipEntries(Tail(es), o.dir)
                    ELSE [err |-> <<"open file">>, dir |-> made]

\* extractZip: zip.OpenReader(srcPath), whose error is wrapped whether the
\* file could not be opened or is no zip archive, then the entries
extractZip(art, dir, fs) ==
    IF fs = "open" THEN [err |-> <<"open zip", "open">>, dir |-> dir]
    ELSE IF art.container # "zip" \/ ~art.intact
    THEN [err |-> <<"open zip">>, dir |-> dir]
    ELSE ZipEntries(art.entries, dir)

\* copyBinary: os.Open(srcPath), whose error is returned as it is, then the
\* bytes written to dstDir under filepath.Base(srcPath), executable
copyBinary(name, art, dir, fs) ==
    IF fs = "open" THEN [err |-> <<"open">>, dir |-> dir]
    ELSE LET o == OpenFile(dir, <<name>>, "0755", art.bytes)
         IN IF o.ok THEN [err |-> NoErr, dir |-> o.dir]
            ELSE [err |-> <<"open file">>, dir |-> dir]

\* a dispatch that knows the long suffixes only
FormatLongOnly(name) ==
    IF HasSuffix(name, <<".", "t", "a", "r", ".", "g", "z">>) THEN "gz"
    ELSE IF HasSuffix(name, <<".", "t", "a", "r", ".", "x", "z">>) THEN "xz"
    ELSE IF HasSuffix(name, <<".", "t", "a", "r", ".", "b", "z", "2">>) THEN "bz2"
    ELSE IF HasSuffix(name, <<".", "z", "i", "p">>) THEN "zip"
    ELSE "raw"

\* Extract: the switch on the suffix of filepath.Base(srcPath)
Format(name) ==
    IF \/ HasSuffix(name, <<".", "t", "a", "r", ".", "g", "z">>)
       \/ HasSuffix(name, <<".", "t", "g", "z">>) THEN "gz"
    ELSE IF \/ HasSuffix(name, <<".", "t", "a", "r", ".", "x", "z">>)
            \/ HasSuffix(name, <<".", "t", "x", "z">>) THEN "xz"
    ELSE IF HasSuffix(name, <<".", "t", "a", "r", ".", "b", "z", "2">>) THEN "bz2"
    ELSE IF HasSuffix(name, <<".", "z", "i", "p">>) THEN "zip"
    ELSE "raw"

\* extractor.Extract(srcPath, dstDir): name is filepath.Base(srcPath), art the
\* bytes at srcPath, dir what dstDir holds; fs = "open" when srcPath cannot be
\* opened, which the strategy the switch calls finds out.
Extract(name, art, dir, fs) ==
    IF Format(name) \in {"gz", "xz", "bz2"} THEN extractTar(art, dir, Format(name), fs)
    ELSE IF Format(name) = "zip" THEN extractZip(art, dir, fs)
    ELSE copyBinary(name, art, dir, fs)

\* ---------------------------------------------------------------------------
\* installer.Run and installer.install
\* ---------------------------------------------------------------------------
ProgressMsg(p, s, v, e) == [Program |-> p, State |-> s, Version |-> v, Err |-> e]

\* a channel that hands out the newest message first
sendFront(msg) ==
    /\ Len(ch) < Cap
    /\ ch' = <<msg>> \o ch
    /\ emitted' = [emitted EXCEPT ![msg.Program] = Append(@, msg)]

\* installer.send: ch <- msg blocks while the buffer is full
send(msg) ==
    /\ Len(ch) < Cap
    /\ ch' = Append(ch, msg)
    /\ emitted' = [emitted EXCEPT ![msg.Program] = Append(@, msg)]

\* the state of a program's install record: the state of its last message
StateOf(p) == IF emitted[p] = <<>> THEN StatePending ELSE emitted[p][Len(emitted[p])].State
ErrOf(p) == IF emitted[p] = <<>> THEN NoErr ELSE emitted[p][Len(emitted[p])].Err

\* a pool that never fills
semFreeUnbounded(held) == TRUE

\* Run: sem <- struct{}{} goes through while the pool has a free slot
semFree(held) == held < workerCount

\* a Run that closes the channel when its loop ends, without wg.Wait()
wgWaitSkipped == next >= 1 /\ next > N

\* Run: wg.Wait() returns once the loop has started every program and every
\* goroutine has called wg.Done()
wgWait == next >= 1 /\ next > N /\ \A p \in Progs : pc[p] = "exited"

\* a check that does not look at the error of os.ReadFile
alreadyInstalledUnchecked(m, v) == TrimSpace(m.content) = v

\* a comparison of the raw file content
alreadyInstalledRaw(m, v) == m.exists /\ m.readable /\ m.content = v

\* install: the marker can be read and, trimmed, equals the resolved version
alreadyInstalled(m, v) == m.exists /\ m.readable /\ TrimSpace(m.content) = v

\* a retry loop that remembers the first failure only
keepErrFirst(last, err) == IF last = NoErr THEN err ELSE last

\* downloadWithRetry: lastErr = err
keepErr(last, err) == err

\* unchanged by every step of a task
frame == <<programs, world, trial, cancelled, cancelAt, next, answered, feVars>>

\* an admission that hands the free slot to any program not yet started
AdmitAny ==
    /\ next >= 1
    /\ next <= N
    /\ semFree(sem)
    /\ sem' = sem + 1
    /\ \E p \in Progs : /\ pc[p] = "waiting"
                        /\ pc' = [pc EXCEPT ![p] = "admitted"]
    /\ next' = next + 1
    /\ UNCHANGED <<programs, world, trial, cancelled, cancelAt, answered, feVars>>
    /\ UNCHANGED <<marker, binDir, version, attempt, lastErr, tmpFile, tmpCount, bins,
                   linkIdx, ch, chClosed, binCh, emitted, calls, linked, dl, hist>>

\* Run: the admission loop takes a token before it starts the goroutine
Admit ==
    /\ next >= 1
    /\ next <= N
    /\ semFree(sem)
    /\ sem' = sem + 1
    /\ pc' = [pc EXCEPT ![next] = "admitted"]
    /\ next' = next + 1
    /\ UNCHANGED <<programs, world, trial, cancelled, cancelAt, answered, feVars>>
    /\ UNCHANGED <<marker, binDir, version, attempt, lastErr, tmpFile, tmpCount, bins,
                   linkIdx, ch, chClosed, binCh, emitted, calls, linked, dl, hist>>

\* install: the first message, then the resolver call is in flight
Start(p) ==
    /\ pc[p] = "admitted"
    /\ send(ProgressMsg(p, StateFetchingVersion, NoVersion, NoErr))
    /\ pc' = [pc EXCEPT ![p] = "resolving"]
    /\ calls' = [calls EXCEPT ![p].resolve = @ + 1]
    /\ UNCHANGED frame
    /\ UNCHANGED <<sem, marker, binDir, version, attempt, lastErr, tmpFile, tmpCount,
                   bins, linkIdx, chClosed, binCh, linked, dl, hist>>

\* install: assetName
assetName(p, v) == ReplaceAll(programs[p].AssetPattern, v)

\* install: fmt.Sprintf("https://github.com/%s/releases/download/v%s/%s", ...)
downloadURL(p, v) == [repo |-> programs[p].Repo, tag |-> <<"v">> \o v, asset |-> assetName(p, v)]

\* the resolver gets as far as Decode: the request was answered with 200
reachesDecode(resp) == resp.do = "ok" /\ resp.status = "200"

\* install: LatestVersion has returned on the answer resp; error, skip on an
\* equal marker, or download
Resolved(p, resp) ==
    LET r == LatestVersion(resp) IN
    /\ hist' = [hist EXCEPT ![p].resp = resp,
                            ![p].url = IF r.err = NoErr /\ ~alreadyInstalled(marker[p], r.version)
                                       THEN downloadURL(p, r.version) ELSE @]
    /\ IF r.err # NoErr
       THEN /\ send(ProgressMsg(p, StateError, NoVersion, r.err))
            /\ pc' = [pc EXCEPT ![p] = "terminal"]
            /\ UNCHANGED <<version, calls>>
       ELSE /\ version' = [version EXCEPT ![p] = r.version]
            /\ IF alreadyInstalled(marker[p], r.version)
               THEN /\ send(ProgressMsg(p, StateSkipped, r.version, NoErr))
                    /\ pc' = [pc EXCEPT ![p] = "terminal"]
                    /\ UNCHANGED calls
               ELSE /\ send(ProgressMsg(p, StateDownloading, r.version, NoErr))
                    /\ pc' = [pc EXCEPT ![p] = "downloading"]
                    /\ calls' = [calls EXCEPT ![p].download = @ + 1]

\* LatestVersion: the request returns; it failed or was answered with another
\* status than 200, or the body is decoded
ResolveDo(p) ==
    /\ pc[p] = "resolving"
    /\ \E resp \in ResolverResponses(p) :
         IF reachesDecode(resp)
         THEN /\ hist' = [hist EXCEPT ![p].resp = resp]
              /\ pc' = [pc EXCEPT ![p] = "decoding"]
              /\ UNCHANGED <<version, calls, ch, emitted>>
         ELSE Resolved(p, resp)
    /\ UNCHANGED frame
    /\ UNCHANGED <<sem, marker, binDir, attempt, lastErr, tmpFile, tmpCount, bins,
                   linkIdx, chClosed, binCh, linked, dl>>

\* LatestVersion: Decode returns
ResolveDecode(p) ==
    /\ pc[p] = "decoding"
    /\ \E resp \in BodyDecoded(hist[p].resp) : Resolved(p, resp)
    /\ UNCHANGED frame
    /\ UNCHANGED <<sem, marker, binDir, attempt, lastErr, tmpFile, tmpCount, bins,
                   linkIdx, chClosed, binCh, linked, dl>>

\* the attempt gets as far as io.Copy: os.CreateTemp has made the file
reachesCopy(resp) == download([resp EXCEPT !.copy = "ok"]).created = 1

\* downloadWithRetry: download has returned r; the loop goes on to the next
\* attempt, and install to extracting or to the error
AttemptReturns(p, r) ==
    /\ dl' = [dl EXCEPT ![p] = Append(@, r.err)]
    /\ IF r.ok
       THEN /\ tmpFile' = [tmpFile EXCEPT ![p] = TRUE]
            /\ send(ProgressMsg(p, StateExtracting, version[p], NoErr))
            /\ pc' = [pc EXCEPT ![p] = "extracting"]
            /\ UNCHANGED <<attempt, lastErr>>
       ELSE /\ lastErr' = [lastErr EXCEPT ![p] = keepErr(@, r.err)]
            /\ attempt' = [attempt EXCEPT ![p] = @ + 1]
            /\ UNCHANGED tmpFile
            /\ IF attempt[p] + 1 < MaxAttempts
               THEN /\ pc' = [pc EXCEPT ![p] = "sleeping"]
                    /\ UNCHANGED <<ch, emitted>>
               ELSE /\ send(ProgressMsg(p, StateError, NoVersion,
                                        <<"download">> \o lastErr'[p]))
                    /\ pc' = [pc EXCEPT ![p] = "terminal"]

\* download: http.DefaultClient.Do returns; the attempt fails on the request,
\* the status, the length or os.CreateTemp, or the temporary file exists and
\* the body is read
DownloadDo(p) ==
    /\ pc[p] = "downloading"
    /\ \E resp \in DownloadResponses(p) :
         /\ hist' = [hist EXCEPT ![p].got = Append(@, resp)]
         /\ IF reachesCopy(resp)
            THEN /\ tmpCount' = [tmpCount EXCEPT ![p] = @ + 1]
                 /\ pc' = [pc EXCEPT ![p] = "copying"]
                 /\ UNCHANGED <<dl, tmpFile, attempt, lastErr, ch, emitted>>
            ELSE /\ tmpCount' = [tmpCount EXCEPT ![p] = @ + download(resp).left]
                 /\ AttemptReturns(p, download(resp))
    /\ UNCHANGED frame
    /\ UNCHANGED <<sem, marker, binDir, version, bins, linkIdx, chClosed, binCh, calls,
                   linked>>

\* download: io.Copy returns; when it failed the temporary file is removed
DownloadCopy(p) ==
    /\ pc[p] = "copying"
    /\ LET n == Len(hist[p].got) IN
       \E resp \in BodyRead(hist[p].got[n]) :
          LET r == download(resp) IN
          /\ hist' = [hist EXCEPT ![p].got[n] = resp]
          /\ tmpCount' = [tmpCount EXCEPT ![p] = @ - r.created + r.left]
          /\ AttemptReturns(p, r)
    /\ UNCHANGED frame
    /\ UNCHANGED <<sem, marker, binDir, version, bins, linkIdx, chClosed, binCh, calls,
                   linked>>

\* downloadWithRetry: the delay, in seconds, slept before the attempt numbered
\* attempt (the first attempt is numbered 0)
delay(a) == 2 ^ (a - 1)

\* a back-off that does not look at the context
WakeNoCtx(p) ==
    /\ pc[p] = "sleeping"
    /\ hist' = [hist EXCEPT ![p].slept = Append(@, delay(attempt[p]))]
    /\ pc' = [pc EXCEPT ![p] = "downloading"]
    /\ calls' = [calls EXCEPT ![p].download = @ + 1]
    /\ UNCHANGED <<ch, emitted>>
    /\ UNCHANGED frame
    /\ UNCHANGED <<sem, marker, binDir, version, attempt, lastErr, tmpFile, tmpCount,
                   bins, linkIdx, chClosed, binCh, linked, dl>>

\* downloadWithRetry: the select between ctx.Done() and the back-off timer; the
\* event that comes first wakes the goroutine, and a timer of a second or more
\* is not ready when the select starts
Wake(p) ==
    /\ pc[p] = "sleeping"
    /\ \/ /\ ~cancelled
          /\ hist' = [hist EXCEPT ![p].slept = Append(@, delay(attempt[p]))]
          /\ pc' = [pc EXCEPT ![p] = "downloading"]
          /\ calls' = [calls EXCEPT ![p].download = @ + 1]
          /\ UNCHANGED <<ch, emitted>>
       \/ /\ cancelled
          /\ send(ProgressMsg(p, StateError, NoVersion, <<"download", ErrCanceled>>))
          /\ pc' = [pc EXCEPT ![p] = "terminal"]
          /\ UNCHANGED <<calls, hist>>
    /\ UNCHANGED frame
    /\ UNCHANGED <<sem, marker, binDir, version, attempt, lastErr, tmpFile, tmpCount,
                   bins, linkIdx, chClosed, binCh, linked, dl>>

\* install: os.WriteFile(versionFile, []byte(version), 0644), whose error is
\* dropped: the file holds the version afterwards, is left as it was when it
\* could not be opened, and is left empty when it was opened (created or
\* truncated) and the write failed. The mode 0644 is that of a file the call
\* creates; a file that is there keeps its mode, so an unreadable marker
\* stays unreadable.
WriteFile(m, v, out) ==
    IF out = "nowrite" THEN m
    ELSE [exists |-> TRUE,
          readable |-> (m.exists => m.readable),
          content |-> IF out = "partial" THEN <<>> ELSE v]

\* a task that asks the operator whatever the descriptor says
needsBinSelectionAlways(p) == TRUE

\* the descriptor supplies no links: the task has to ask the operator
needsBinSelection(p) == Len(programs[p].Bin) = 0

\* the task creates the reply channel of its request and publishes the request
RequestBins(p) ==
    /\ binCh' = [binCh EXCEPT ![p] = [st |-> "open", val |-> <<>>]]
    /\ send(ProgressMsg(p, StateAwaitingBinSelection, version[p], NoErr))
    /\ pc' = [pc EXCEPT ![p] = "awaiting"]

\* the strings of random digits os.CreateTemp may put into a file name
TempDigits == {"1", "2"}

\* download: os.CreateTemp("", "installer-*-"+assetName), the base name of the
\* file it creates: CreateTemp puts random digits in the place of the star
tempName(name, digits) == <<"installer-", digits, "-">> \o name

\* the bytes the publisher offers under an asset name: packed as the name says
PublishedArtifact(name) ==
    [container |-> IF Format(name) = "raw" THEN "other" ELSE Format(name),
     entries |-> <<[name |-> <<"a">>, type |-> "reg", data |-> 1]>>,
     intact |-> TRUE, bytes |-> 7]

\* bytes that are no archive
Garbage == [container |-> "other", entries |-> <<>>, intact |-> FALSE, bytes |-> 8]

\* the temporary file of a download whose body was empty
EmptyFile == [container |-> "other", entries |-> <<>>, intact |-> FALSE, bytes |-> 0]

\* install: the linking message, sent whatever the link list holds
StartLinking(p) ==
    /\ send(ProgressMsg(p, StateLinking, version[p], NoErr))
    /\ pc' = [pc EXCEPT ![p] = "linking"]
    /\ UNCHANGED binCh

\* install: MkdirAll and Extract return; Extract works on the temporary file,
\* which holds what the last download attempt copied; on success the marker
\* is written and the task goes on, to the request for the links when ask
\* holds and to linking otherwise
Extracted(p, ask) ==
    \E out \in ExtractOutcomes(marker[p]), digits \in TempDigits :
      LET name == assetName(p, version[p])
          got == hist[p].got[Len(hist[p].got)]
          r == Extract(tempName(name, digits),
                       IF got.body = 0 THEN EmptyFile
                       ELSE IF out = "corrupt" THEN Garbage
                       ELSE PublishedArtifact(name),
                       EmptyDir, IF out = "extract" THEN "open" ELSE "ok")
      IN
      /\ calls' = [calls EXCEPT ![p].extract = @ + (IF out = "mkdir" THEN 0 ELSE 1)]
      /\ IF out = "mkdir"
         THEN /\ send(ProgressMsg(p, StateError, NoVersion, <<"mkdir">>))
              /\ pc' = [pc EXCEPT ![p] = "terminal"]
              /\ UNCHANGED <<marker, binCh, hist>>
         ELSE IF r.err # NoErr
         THEN /\ send(ProgressMsg(p, StateError, NoVersion, <<"extract">> \o r.err))
              /\ pc' = [pc EXCEPT ![p] = "terminal"]
              /\ hist' = [hist EXCEPT ![p].how = Format(tempName(name, digits))]
              /\ UNCHANGED <<marker, binCh>>
         ELSE /\ marker' = [marker EXCEPT ![p] = WriteFile(@, version[p], out)]
              /\ hist' = [hist EXCEPT ![p].how = Format(tempName(name, digits)),
                                      ![p].wrote = IF out \in {"nowrite", "partial"}
                                                   THEN "failed" ELSE "ok"]
              /\ IF ask THEN RequestBins(p) ELSE StartLinking(p)

\* install, as installer.go has it: after the marker the task starts linking,
\* also when the descriptor supplies no link
ExtractReturn(p) ==
    /\ pc[p] = "extracting"
    /\ Extracted(p, FALSE)
    /\ UNCHANGED frame
    /\ UNCHANGED <<sem, binDir, version, attempt, lastErr, tmpFile, tmpCount, bins,
                   linkIdx, chClosed, linked, dl>>

\* install, as the front end expects it: a task whose descriptor supplies no
\* link asks the operator for the links before it starts linking
ExtractReturnAsk(p) ==
    /\ pc[p] = "extracting"
    /\ needsBinSelection(p)
    /\ Extracted(p, TRUE)
    /\ UNCHANGED frame
    /\ UNCHANGED <<sem, binDir, version, attempt, lastErr, tmpFile, tmpCount, bins,
                   linkIdx, chClosed, linked, dl>>

\* a wait that a value ends but a close of the reply channel does not
AwaitReturnValueOnly(p) ==
    /\ pc[p] = "awaiting"
    /\ \/ cancelled
       \/ binCh[p].st = "replied"
    /\ IF cancelled
       THEN /\ send(ProgressMsg(p, StateError, NoVersion, <<ErrCanceled>>))
            /\ pc' = [pc EXCEPT ![p] = "terminal"]
            /\ UNCHANGED <<bins, binCh>>
       ELSE /\ bins' = [bins EXCEPT ![p] = binCh[p].val]
            /\ binCh' = [binCh EXCEPT ![p].st = "taken"]
            /\ send(ProgressMsg(p, StateLinking, version[p], NoErr))
            /\ pc' = [pc EXCEPT ![p] = "linking"]
    /\ UNCHANGED frame
    /\ UNCHANGED <<sem, marker, binDir, version, attempt, lastErr, tmpFile, tmpCount,
                   linkIdx, chClosed, calls, linked, dl, hist>>

\* a wait that the cancellation does not end
AwaitReturnNoCtx(p) ==
    /\ pc[p] = "awaiting"
    /\ binCh[p].st \in {"replied", "closed"}
    /\ bins' = [bins EXCEPT ![p] = binCh[p].val]
    /\ binCh' = [binCh EXCEPT ![p].st = IF @ = "replied" THEN "taken" ELSE @]
    /\ send(ProgressMsg(p, StateLinking, version[p], NoErr))
    /\ pc' = [pc EXCEPT ![p] = "linking"]
    /\ UNCHANGED frame
    /\ UNCHANGED <<sem, marker, binDir, version, attempt, lastErr, tmpFile, tmpCount,
                   linkIdx, chClosed, calls, linked, dl, hist>>

\* install: the blocking wait for the bin-selection reply returns: with the
\* cancellation, with the reply, or empty-handed when the channel was closed
AwaitReturn(p) ==
    /\ pc[p] = "awaiting"
    /\ \/ cancelled
       \/ binCh[p].st \in {"replied", "closed"}
    /\ IF cancelled
       THEN /\ send(ProgressMsg(p, StateError, NoVersion, <<ErrCanceled>>))
            /\ pc' = [pc EXCEPT ![p] = "terminal"]
            /\ UNCHANGED <<bins, binCh>>
       ELSE /\ bins' = [bins EXCEPT ![p] = binCh[p].val]
            /\ binCh' = [binCh EXCEPT ![p].st = IF @ = "replied" THEN "taken" ELSE @]
            /\ send(ProgressMsg(p, StateLinking, version[p], NoErr))
            /\ pc' = [pc EXCEPT ![p] = "linking"]
    /\ UNCHANGED frame
    /\ UNCHANGED <<sem, marker, binDir, version, attempt, lastErr, tmpFile, tmpCount,
                   linkIdx, chClosed, calls, linked, dl, hist>>

\* the pair the linking loop is at, and the source its link points at:
\* installDir joined with b.Src, the placeholder replaced by the version
CurrentBin(p) == bins[p][linkIdx[p]]

LinkSource(p, b) == <<p, ReplaceAll(b.Src, version[p])>>

\* a linking loop that takes back the links it made when one fails
LinkFailedRollback(p, err) ==
    LET mine == { linked[p][i].bin.Dst : i \in 1..Len(linked[p]) }
    IN /\ linked' = [linked EXCEPT ![p] = Append(@, [bin |-> CurrentBin(p), err |-> err])]
       /\ binDir' = [n \in LinkNames |-> IF n \in mine THEN Absent ELSE binDir[n]]
       /\ send(ProgressMsg(p, StateError, NoVersion, <<"link">> \o err))
       /\ pc' = [pc EXCEPT ![p] = "terminal"]
       /\ UNCHANGED linkIdx

\* a linking loop that reports a failed link and carries on
LinkFailedNoReturn(p, err) ==
    /\ linked' = [linked EXCEPT ![p] = Append(@, [bin |-> CurrentBin(p), err |-> err])]
    /\ send(ProgressMsg(p, StateError, NoVersion, <<"link">> \o err))
    /\ pc' = [pc EXCEPT ![p] = "linking"]
    /\ linkIdx' = [linkIdx EXCEPT ![p] = @ + 1]
    /\ UNCHANGED binDir

\* install: Link has returned an error: the error message, and the task ends
LinkFailed(p, err) ==
    /\ linked' = [linked EXCEPT ![p] = Append(@, [bin |-> CurrentBin(p), err |-> err])]
    /\ send(ProgressMsg(p, StateError, NoVersion, <<"link">> \o err))
    /\ pc' = [pc EXCEPT ![p] = "terminal"]
    /\ UNCHANGED <<binDir, linkIdx>>

\* install: the next turn of the linking loop calls Link, which looks at the
\* destination with os.Lstat
LinkLstat(p) ==
    /\ pc[p] = "linking"
    /\ linkIdx[p] <= Len(bins[p])
    /\ LET found == binDir[CurrentBin(p).Dst]
           branch == LinkBranch(found)
       IN /\ hist' = [hist EXCEPT ![p].found = Append(@, found)]
          /\ IF branch = "refuse"
             THEN LinkFailed(p, <<"already exists as a regular file">>)
             ELSE /\ pc' = [pc EXCEPT ![p] = IF branch = "remove" THEN "removing"
                                             ELSE "symlinking"]
                  /\ UNCHANGED <<binDir, linkIdx, linked, ch, emitted>>
    /\ UNCHANGED frame
    /\ UNCHANGED <<sem, marker, version, attempt, lastErr, tmpFile, tmpCount, bins,
                   chClosed, binCh, calls, dl>>

\* Link: os.Remove(target) of the symbolic link that Lstat found
LinkRemove(p) ==
    /\ pc[p] = "removing"
    /\ \E fault \in RemoveFaults :
         LET dst == CurrentBin(p).Dst
             r == Remove(binDir[dst], fault)
         IN IF r.err # NoErr
            THEN LinkFailed(p, r.err)
            ELSE /\ binDir' = [binDir EXCEPT ![dst] = r.entry]
                 /\ pc' = [pc EXCEPT ![p] = "symlinking"]
                 /\ UNCHANGED <<linkIdx, linked, ch, emitted>>
    /\ UNCHANGED frame
    /\ UNCHANGED <<sem, marker, version, attempt, lastErr, tmpFile, tmpCount, bins,
                   chClosed, binCh, calls, dl, hist>>

\* Link: os.Symlink(src, target); Link returns and the loop goes on
LinkSymlink(p) ==
    /\ pc[p] = "symlinking"
    /\ \E fault \in SymlinkFaults :
         LET b == CurrentBin(p)
             r == MakeSymlink(binDir[b.Dst], LinkSource(p, b), fault)
         IN IF r.err # NoErr
            THEN LinkFailed(p, r.err)
            ELSE /\ binDir' = [binDir EXCEPT ![b.Dst] = r.entry]
                 /\ linked' = [linked EXCEPT ![p] = Append(@, [bin |-> b, err |-> NoErr])]
                 /\ linkIdx' = [linkIdx EXCEPT ![p] = @ + 1]
                 /\ pc' = [pc EXCEPT ![p] = "linking"]
                 /\ UNCHANGED <<ch, emitted>>
    /\ UNCHANGED frame
    /\ UNCHANGED <<sem, marker, version, attempt, lastErr, tmpFile, tmpCount, bins,
                   chClosed, binCh, calls, dl, hist>>

\* install: the linking loop has ended: the done message
Finish(p) ==
    /\ pc[p] = "linking"
    /\ linkIdx[p] > Len(bins[p])
    /\ send(ProgressMsg(p, StateDone, version[p], NoErr))
    /\ pc' = [pc EXCEPT ![p] = "terminal"]
    /\ UNCHANGED frame
    /\ UNCHANGED <<sem, marker, binDir, version, attempt, lastErr, tmpFile, tmpCount,
                   bins, linkIdx, chClosed, binCh, calls, linked, dl, hist>>

\* install returns with the deferred os.Remove(tmpFile), which is registered
\* once the download has succeeded
RemoveTmp(p) ==
    /\ pc[p] = "terminal"
    /\ tmpFile[p]
    /\ tmpCount' = [tmpCount EXCEPT ![p] = @ - 1]
    /\ pc' = [pc EXCEPT ![p] = "returned"]
    /\ UNCHANGED frame
    /\ UNCHANGED <<sem, marker, binDir, version, attempt, lastErr, tmpFile, bins, linkIdx,
                   ch, chClosed, binCh, emitted, calls, linked, dl, hist>>

\* install has returned
Returned(p) == pc[p] = "returned" \/ (pc[p] = "terminal" /\ ~tmpFile[p])

\* a goroutine that ends without giving its slot back
ReleaseSlotKept(p) ==
    /\ Returned(p)
    /\ pc' = [pc EXCEPT ![p] = "released"]
    /\ UNCHANGED frame
    /\ UNCHANGED <<sem, marker, binDir, version, attempt, lastErr, tmpFile, tmpCount, bins,
                   linkIdx, ch, chClosed, binCh, emitted, calls, linked, dl, hist>>

\* the goroutine's deferred func() { <-sem }()
ReleaseSlot(p) ==
    /\ Returned(p)
    /\ sem' = sem - 1
    /\ pc' = [pc EXCEPT ![p] = "released"]
    /\ UNCHANGED frame
    /\ UNCHANGED <<marker, binDir, version, attempt, lastErr, tmpFile, tmpCount, bins,
                   linkIdx, ch, chClosed, binCh, emitted, calls, linked, dl, hist>>

\* the goroutine's deferred wg.Done()
WgDone(p) ==
    /\ pc[p] = "released"
    /\ pc' = [pc EXCEPT ![p] = "exited"]
    /\ UNCHANGED frame
    /\ UNCHANGED <<sem, marker, binDir, version, attempt, lastErr, tmpFile, tmpCount, bins,
                   linkIdx, ch, chClosed, binCh, emitted, calls, linked, dl, hist>>

\* Run: wg.Wait() returns and the deferred close(ch) runs
CloseCh ==
    /\ wgWait
    /\ ~chClosed
    /\ chClosed' = TRUE
    /\ UNCHANGED frame
    /\ UNCHANGED <<sem, pc, marker, binDir, version, attempt, lastErr, tmpFile, tmpCount,
                   bins, linkIdx, ch, binCh, emitted, calls, linked, dl, hist>>

\* where a task waits for something that takes the context: the two waits of
\* the resolver call and of a download attempt, the back-off sleep and the
\* wait for the bin-selection reply
SuspensionPoints ==
    {"resolving", "decoding", "downloading", "copying", "sleeping", "awaiting"}

\* main: the context of signal.NotifyContext is cancelled (a signal, or the
\* deferred cancel when the front end has returned)
Cancel ==
    /\ world.signal
    /\ ~cancelled
    /\ cancelled' = TRUE
    /\ cancelAt' = [p \in Progs |-> IF p \notin world.watch THEN "unwatched"
                                     ELSE IF pc[p] \in SuspensionPoints \cup {"waiting"}
                                     THEN pc[p] ELSE "running"]
    /\ UNCHANGED <<programs, world, trial, taskVars, feVars>>

\* ---------------------------------------------------------------------------
\* The front end: tui.RootModel, progressModel and pickerModel
\* ---------------------------------------------------------------------------
\* RootModel.Update on the selector screen: the packages of the selected
\* programs, each once, in the order they are first named
RECURSIVE allPackagesFrom(_, _)
allPackagesFrom(seen, rest) ==
    IF rest = <<>> THEN seen
    ELSE allPackagesFrom(IF \E i \in 1..Len(seen) : seen[i] = Head(rest)
                         THEN seen ELSE Append(seen, Head(rest)),
                         Tail(rest))

RECURSIVE Concat(_)
Concat(lists) == IF lists = <<>> THEN <<>> ELSE Head(lists) \o Concat(Tail(lists))

\* a check that looks at the first selected program only
allPackagesFirst(selected) ==
    IF selected = <<>> THEN <<>> ELSE allPackagesFrom(<<>>, selected[1].Packages)

allPackages(selected) ==
    allPackagesFrom(<<>>, Concat([i \in 1..Len(selected) |-> selected[i].Packages]))

\* system.CheckPackages: the packages that `command -v` does not find
CheckPackages(packages) ==
    LET Lost(pkg) == pkg \notin world.path IN SelectSeq(packages, Lost)

\* the selector is confirmed: nothing selected quits, a missing command shows
\* the pre-flight screen, otherwise installer.Run is called and the front end
\* starts to read the channel
SelectorDone ==
    /\ screen = "selector"
    /\ LET missing == CheckPackages(allPackages(programs)) IN
       IF Len(programs) = 0
       THEN /\ screen' = "quit"
            /\ UNCHANGED <<preflight, next, reading>>
       ELSE IF Len(missing) > 0
       THEN /\ screen' = "preflight"
            /\ preflight' = missing
            /\ UNCHANGED <<next, reading>>
       ELSE /\ screen' = "progress"
            /\ next' = 1
            /\ reading' = TRUE
            /\ UNCHANGED preflight
    /\ UNCHANGED <<programs, world, trial, cancelled, cancelAt, answered, entries,
                   pickerQueue, activePicker, picker, fdone, inbox>>
    /\ UNCHANGED <<marker, binDir, sem, pc, version, attempt, lastErr, tmpFile, tmpCount,
                   bins, linkIdx, ch, chClosed, binCh, emitted, calls, linked, dl, hist>>

\* the operator leaves the selector, or presses a key on the pre-flight
\* screen: tea.Quit
QuitBeforeRun ==
    /\ screen \in {"selector", "preflight"}
    /\ screen' = "quit"
    /\ UNCHANGED <<programs, world, trial, cancelled, cancelAt, taskVars, entries, pickerQueue,
                   activePicker, picker, fdone, reading, inbox, preflight>>

\* progressModel.applyMsg
applyMsgEntries(msg) ==
    [entries EXCEPT ![msg.Program] =
        [state |-> msg.State, version |-> msg.Version, err |-> msg.Err]]

applyMsgQueue(msg) ==
    IF msg.State = StateAwaitingBinSelection
    THEN Append(pickerQueue, msg.Program)
    ELSE pickerQueue

\* a check that is satisfied by the first program that has finished
allTerminalAny(es, queue) ==
    /\ Len(queue) = 0
    /\ \E p \in DOMAIN es : es[p].state \in TerminalStates

\* progressModel.allTerminal
allTerminal(es, queue) ==
    /\ Len(queue) = 0
    /\ \A p \in DOMAIN es : es[p].state \in TerminalStates

\* newPickerModel
newPickerModel == [phase |-> "browse", selectedSrc |-> <<>>, added |-> <<>>]

\* RootModel.openNextPicker on the queue given
openNextPicker(queue) ==
    /\ activePicker' = Head(queue)
    /\ pickerQueue' = Tail(queue)
    /\ picker' = newPickerModel
    /\ screen' = "picker"

\* what waitForProgress returns once the channel is closed and drained
Nil == [Program |-> 0, State |-> "nil", Version |-> NoVersion, Err |-> NoErr]

\* waitForProgress: the command's goroutine takes the next message from the
\* channel, or nil once the channel is closed and drained, and hands it to the
\* bubbletea runtime
RecvProgress ==
    /\ reading
    /\ ch # <<>> \/ chClosed
    /\ IF ch # <<>>
       THEN ch' = Tail(ch) /\ inbox' = Append(inbox, Head(ch))
       ELSE inbox' = Append(inbox, Nil) /\ UNCHANGED ch
    /\ reading' = FALSE
    /\ UNCHANGED <<programs, world, trial, preflight, cancelled, cancelAt, marker, binDir,
                   next, sem, pc, version, attempt, lastErr, tmpFile, tmpCount, bins,
                   linkIdx, chClosed, binCh, emitted, calls, linked, dl, answered, hist,
                   screen, entries, pickerQueue, activePicker, picker, fdone>>

\* RootModel.Update on the progress screen, called by the event loop with the
\* message the command returned. (The channel is closed after the last
\* terminal message, and the front end stops reading when it has applied that
\* message, so with at least one program selected the nil case does not arise.)
UpdateProgress ==
    /\ inbox # <<>>
    /\ screen = "progress"
    /\ inbox' = Tail(inbox)
    /\ IF Head(inbox) # Nil
       THEN LET msg == Head(inbox)
                es == applyMsgEntries(msg)
                queue == applyMsgQueue(msg)
            IN /\ entries' = es
               /\ IF activePicker = 0 /\ Len(queue) > 0
                  THEN /\ openNextPicker(queue)
                       /\ UNCHANGED <<fdone, reading>>
                  ELSE /\ pickerQueue' = queue
                       /\ UNCHANGED <<activePicker, picker, screen>>
                       /\ IF allTerminal(es, queue)
                          THEN fdone' = TRUE /\ UNCHANGED reading
                          ELSE reading' = TRUE /\ UNCHANGED fdone
       ELSE /\ fdone' = IF allTerminal(entries, pickerQueue) THEN TRUE ELSE fdone
            /\ UNCHANGED <<entries, pickerQueue, activePicker, picker, screen, reading>>
    /\ UNCHANGED <<programs, world, trial, preflight, cancelled, cancelAt, marker, binDir,
                   next, sem, pc, version, attempt, lastErr, tmpFile, tmpCount, bins,
                   linkIdx, ch, chClosed, binCh, emitted, calls, linked, dl, answered, hist>>

\* a key on the progress screen once the run is marked complete: tea.Quit
KeyProgress ==
    /\ screen = "progress"
    /\ fdone
    /\ screen' = "quit"
    /\ UNCHANGED <<programs, world, trial, cancelled, cancelAt, taskVars, entries, pickerQueue,
                   activePicker, picker, fdone, reading, inbox, preflight>>

\* filepath.Base of a path without trailing separator
RECURSIVE Base(_)
Base(path) ==
    IF \E i \in 1..Len(path) : path[i] = "/"
    THEN Base(Tail(path))
    ELSE path

PickerKeys ==
    { [key |-> k, file |-> <<>>, name |-> <<>>] : k \in {"ctrl+c", "abort", "yes", "no"} }
    \cup { [key |-> "complete", file |-> f, name |-> n] : f \in PickerFiles, n \in world.typed }

\* pickerModel.Update (updateBrowse, updateNaming, updateConfirm): the picker
\* after the key, with its done and quit flags. The naming form validates its
\* field: a name that is blank once trimmed does not complete the form, so
\* the picker stays in the naming step and the fallback to the base name of
\* the file is not reached.
pickerUpdate(m, k) ==
    LET same == [m |-> m, done |-> FALSE, quit |-> FALSE] IN
    IF k.key = "ctrl+c" THEN [m |-> m, done |-> FALSE, quit |-> TRUE]
    ELSE IF m.phase = "browse"
    THEN IF k.key = "complete"
         THEN [same EXCEPT !.m = [m EXCEPT !.phase = "naming", !.selectedSrc = k.file]]
         ELSE IF k.key = "abort" THEN [m |-> m, done |-> TRUE, quit |-> FALSE]
         ELSE same
    ELSE IF m.phase = "naming"
    THEN IF k.key = "complete"
         THEN LET typed == TrimSpace(k.name)
                  name == IF typed = <<>> THEN Base(m.selectedSrc) ELSE typed
              IN IF typed = <<>> THEN same
                 ELSE [same EXCEPT !.m = [m EXCEPT !.phase = "confirm",
                                                    !.added = Append(@, Bin(m.selectedSrc, name))]]
         ELSE IF k.key = "abort" THEN [same EXCEPT !.m = [m EXCEPT !.phase = "browse"]]
         ELSE same
    ELSE IF m.phase = "confirm"
    THEN IF k.key = "yes" THEN [same EXCEPT !.m = [m EXCEPT !.phase = "browse"]]
         ELSE IF k.key \in {"no", "abort"} THEN [m |-> m, done |-> TRUE, quit |-> FALSE]
         ELSE same
    ELSE same

\* a reply that holds the last pair only
replyValueLast(m) == IF m.added = <<>> THEN <<>> ELSE <<m.added[Len(m.added)]>>

\* RootModel.Update: m.activePicker.BinCh <- m.picker.added
replyValue(m) == m.added

\* m.activePicker.BinCh <- m.picker.added is a channel send: it goes through
\* when the task is receiving, and otherwise waits unless the channel has a
\* free place in its buffer, which the front end cannot tell
sendWaits(p) == ~(pc[p] = "awaiting" /\ ~cancelled)

\* RootModel.Update on the bin picker screen; while Update waits in the send
\* of the reply it handles no key
PickerKey ==
    /\ screen = "picker"
    /\ activePicker # 0 => binCh[activePicker].st # "sending"
    /\ \E k \in PickerKeys :
         LET r == pickerUpdate(picker, k) IN
         /\ (picker.phase = "browse" /\ k.key = "complete") => Len(picker.added) < MaxAdded
         /\ r # [m |-> picker, done |-> FALSE, quit |-> FALSE]
         /\ IF r.quit
            THEN /\ binCh' = IF activePicker # 0
                             THEN [binCh EXCEPT ![activePicker].st = "closed"]
                             ELSE binCh
                 /\ activePicker' = 0
                 /\ screen' = "quit"
                 /\ picker' = r.m
                 /\ hist' = IF activePicker # 0
                            THEN [hist EXCEPT ![activePicker].closes = @ + 1]
                            ELSE hist
                 /\ UNCHANGED <<pickerQueue, fdone, reading, answered>>
            ELSE IF r.done
            THEN /\ answered' = IF activePicker # 0
                                THEN [answered EXCEPT ![activePicker] =
                                          [done |-> TRUE, val |-> r.m.added]]
                                ELSE answered
                 /\ hist' = IF activePicker # 0
                            THEN [hist EXCEPT ![activePicker].sends = @ + 1]
                            ELSE hist
                 /\ \/ /\ binCh' = IF activePicker # 0
                                   THEN [binCh EXCEPT ![activePicker] =
                                             [st |-> "replied", val |-> replyValue(r.m)]]
                                   ELSE binCh
                       /\ IF Len(pickerQueue) > 0
                          THEN /\ openNextPicker(pickerQueue)
                               /\ UNCHANGED <<fdone, reading>>
                          ELSE /\ activePicker' = 0
                               /\ screen' = "progress"
                               /\ picker' = r.m
                               /\ UNCHANGED pickerQueue
                               /\ IF ~allTerminal(entries, pickerQueue)
                                  THEN reading' = TRUE /\ UNCHANGED fdone
                                  ELSE fdone' = TRUE /\ UNCHANGED reading
                    \/ /\ activePicker # 0
                       /\ sendWaits(activePicker)
                       /\ binCh' = [binCh EXCEPT ![activePicker] =
                                       [st |-> "sending", val |-> replyValue(r.m)]]
                       /\ picker' = r.m
                       /\ UNCHANGED <<activePicker, screen, pickerQueue, fdone, reading>>
            ELSE /\ picker' = r.m
                 /\ UNCHANGED <<binCh, activePicker, screen, pickerQueue, fdone, reading,
                                answered, hist>>
    /\ UNCHANGED <<programs, world, trial, preflight, cancelled, cancelAt, marker, binDir, next, sem, pc,
                   version, attempt, lastErr, tmpFile, tmpCount, bins, linkIdx, ch,
                   chClosed, emitted, calls, linked, dl, entries, inbox>>

\* ---------------------------------------------------------------------------
\* Specification
\* ---------------------------------------------------------------------------
TaskStep(p) ==
    \/ Start(p)
    \/ ResolveDo(p)
    \/ ResolveDecode(p)
    \/ DownloadDo(p)
    \/ DownloadCopy(p)
    \/ Wake(p)
    \/ ExtractReturn(p)
    \/ ExtractReturnAsk(p)
    \/ AwaitReturn(p)
    \/ LinkLstat(p)
    \/ LinkRemove(p)
    \/ LinkSymlink(p)
    \/ Finish(p)
    \/ RemoveTmp(p)
    \/ ReleaseSlot(p)
    \/ WgDone(p)

Next ==
    \/ Admit
    \/ \E p \in Progs : TaskStep(p)
    \/ CloseCh
    \/ Cancel
    \/ SelectorDone
    \/ QuitBeforeRun
    \/ RecvProgress
    \/ UpdateProgress
    \/ KeyProgress
    \/ PickerKey

Spec == Init /\ [][Next]_vars

\* ---------------------------------------------------------------------------
\* Functions called on their own, as the package tests call them
\* ---------------------------------------------------------------------------
\* tag names of at most n characters
RECURSIVE TagsUpTo(_)
TagsUpTo(n) ==
    IF n = 0 THEN { <<>> }
    ELSE LET shorter == TagsUpTo(n - 1)
         IN shorter \cup { Append(t, c) : t \in { u \in shorter : Len(u) = n - 1 },
                                          c \in {"v", "1", "."} }

\* what the GitHub API may answer to the releases/latest request
ReleaseResponses ==
    { [do |-> d, status |-> st, decode |-> j, tag |-> t] :
        d \in {"ok", "connection refused"}, st \in {"200", "404", "403", "429", "500"},
        j \in {"ok", "bad json"}, t \in TagsUpTo(MaxTagLen) }

\* file names of artifacts: every suffix of the dispatch, and names near them
ArtifactNames ==
    { <<"a", ".">> \o x : x \in { <<"t", "a", "r", ".", "g", "z">>, <<"t", "g", "z">>,
                                      <<"t", "a", "r", ".", "x", "z">>, <<"t", "x", "z">>,
                                      <<"t", "a", "r", ".", "b", "z", "2">>, <<"z", "i", "p">>,
                                      <<"g", "z">>, <<"t", "a", "r">> } }
    \cup { <<"a">>, <<"t", "g", "z">>, <<".", "z", "i", "p">> }

Entry(name, type, data) == [name |-> name, type |-> type, data |-> data]

ArchiveEntries ==
    { Entry(<<"d">>, "dir", 0), Entry(<<"b">>, "other", 0), Entry(<<"d">>, "reg", 1),
      Entry(<<"b">>, "reg", 1), Entry(<<"b">>, "reg", 2), Entry(<<"d", "b">>, "reg", 1),
      Entry(<<"", "..", "b">>, "reg", 3), Entry(<<"d", "..", "..", "e">>, "dir", 0) }

RECURSIVE EntryLists(_)
EntryLists(n) ==
    IF n = 0 THEN { <<>> }
    ELSE LET shorter == EntryLists(n - 1)
         IN shorter \cup { Append(l, e) : l \in { u \in shorter : Len(u) = n - 1 },
                                          e \in ArchiveEntries }

Artifacts ==
    { [container |-> c, entries |-> l, intact |-> i, bytes |-> 7] :
        c \in {"gz", "xz", "bz2", "zip", "other"}, l \in EntryLists(MaxEntries),
        i \in BOOLEAN }

IdleRun == Scenario(<<Good1>>, <<NoFile>>, EmptyBinDir, {}, FALSE, {})

InitPure ==
    /\ InitFrom(IdleRun)
    /\ \/ \E resp \in ReleaseResponses :
            trial = [fn |-> "LatestRelease", in |-> resp, done |-> FALSE]
       \/ \E name \in ArtifactNames, art \in Artifacts, fs \in {"ok", "open"} :
            trial = [fn |-> "Extract", name |-> name, art |-> art, fs |-> fs,
                     round |-> 0, src |-> <<>>, out |-> <<>>]

\* client_test.go: client.LatestRelease(ctx, "owner/repo") on a test server
CallLatestRelease ==
    /\ trial.fn = "LatestRelease"
    /\ ~trial.done
    /\ trial' = [fn |-> "LatestRelease", in |-> trial.in, done |-> TRUE,
                 out |-> LatestRelease(trial.in)]
    /\ UNCHANGED <<programs, world, cancelled, cancelAt, taskVars, feVars>>

\* extractor.Extract(tmpFile, installDir) as install and extractor_test.go
\* call it: on a file that os.CreateTemp has just named, which holds the
\* artifact, and into a fresh, empty directory. The artifact is extracted on
\* two occasions; src keeps the base names of the files it was read from.
CallExtract ==
    /\ trial.fn = "Extract"
    /\ trial.round < 2
    /\ \E digits \in TempDigits :
         trial' = [trial EXCEPT !.round = @ + 1,
                                !.src = Append(@, tempName(trial.name, digits)),
                                !.out = Append(@, Extract(tempName(trial.name, digits), trial.art,
                                                          EmptyDir, trial.fs))]
    /\ UNCHANGED <<programs, world, cancelled, cancelAt, taskVars, feVars>>

NextPure ==
    \/ CallLatestRelease
    \/ CallExtract

SpecPure == InitPure /\ [][NextPure]_vars

\* ---------------------------------------------------------------------------
\* Runs under a fair scheduler
\* ---------------------------------------------------------------------------
\* the longest run: one program more than the pool has slots
LiveRun == workerCount + 1

\* a bin directory in which the link name x is a symbolic link already
OldLinkDir == [EmptyBinDir EXCEPT ![<<"x">>] = Symlink(<<0, <<"o">>>>)]

\* runs with the front end: a request the operator answers or closes, two
\* requests queued one behind the other, a download that sleeps between its
\* attempts, a link that replaces an older one, and a run with more programs
\* than slots
ScenariosLive ==
    { Scenario(<<Interactive>>, <<NoFile>>, EmptyBinDir, {}, TRUE, {<<" ", "y">>}),
      Scenario(<<Interactive, Interactive>>, <<NoFile, NoFile>>, EmptyBinDir, {}, FALSE, {}),
      Scenario(<<BadAsset>>, <<NoFile>>, EmptyBinDir, {}, TRUE, {}),
      Scenario(<<Good1>>, <<Stale>>, OldLinkDir, {}, FALSE, {}),
      Scenario([i \in 1..LiveRun |-> BadRepo], [i \in 1..LiveRun |-> NoFile], EmptyBinDir,
               {}, FALSE, {}) }

InitLive == trial = NoTrial /\ \E sc \in ScenariosLive : InitFrom(sc)

\* the Go scheduler runs every goroutine that can run: the admission loop of
\* Run, each install goroutine (a collaborator call in flight returns), and
\* the deferred close(ch). Nothing obliges the operator or the front end.
Fairness ==
    /\ WF_vars(Admit)
    /\ WF_vars(CloseCh)
    /\ \A p \in 1..LiveRun : WF_vars(p \in Progs /\ TaskStep(p))

LiveSpec == InitLive /\ [][Next]_vars /\ Fairness

\* the same runs with a front end that is scheduled as well: the bubbletea
\* runtime runs the waitForProgress command it was handed and delivers its
\* message to Update. Nothing obliges the operator to press a key.
FrontSpec ==
    InitLive /\ [][Next]_vars /\ Fairness /\ WF_vars(RecvProgress) /\ WF_vars(UpdateProgress)

\* runs that may be cancelled at any moment, seen from the orchestrator: the
\* front end has called Run and takes no further step, so nothing is read
\* from the channel and no request is answered
ScenariosRun ==
    { Watching(Scenario([i \in 1..LiveRun |-> BadRepo], [i \in 1..LiveRun |-> NoFile],
                        EmptyBinDir, {}, TRUE, {}), {LiveRun}) }
    \cup { Scenario(<<c>>, <<NoFile>>, OldLinkDir, {}, TRUE, {}) :
             c \in {Interactive, BadAsset, Good1} }

InitRun == trial = NoTrial /\ \E sc \in ScenariosRun : InitFrom(sc)

NextRun ==
    \/ SelectorDone
    \/ Admit
    \/ \E p \in Progs : TaskStep(p)
    \/ CloseCh
    \/ Cancel

RunSpec == InitRun /\ [][NextRun]_vars /\ Fairness

\* ---------------------------------------------------------------------------
\* The installer started a second time on the same machine
\* ---------------------------------------------------------------------------
\* runs of one program whose links or marker write may fail, of a program
\* that asks for its links, and of one whose download fails
ScenariosRerun ==
    { Scenario(<<Good2>>, <<NoFile>>, b, DiskFaults, FALSE, {}) : b \in BinDirs }
    \cup { Scenario(<<Interactive>>, <<NoFile>>, EmptyBinDir, {}, TRUE, {<<" ", "y">>}),
           Scenario(<<BadAsset>>, <<NoFile>>, EmptyBinDir, {}, FALSE, {}) }

FirstRun == [fn |-> "rerun", round |-> 1]

InitRerun == trial = FirstRun /\ \E sc \in ScenariosRerun : InitFrom(sc)

\* main has returned (the front end quit after Run closed its channel) and
\* the operator starts the installer again with the same selection: a new
\* process, with the markers and links the first one left on disk. trial
\* keeps what the first run ended with.
Rerun ==
    /\ trial = FirstRun
    /\ screen = "quit"
    /\ chClosed
    /\ trial' = [fn |-> "rerun", round |-> 2,
                 state |-> [p \in Progs |-> StateOf(p)],
                 version |-> version,
                 linked |-> linked,
                 wrote |-> [p \in Progs |-> hist[p].wrote],
                 binDir |-> binDir]
    /\ world' = [world EXCEPT !.marker0 = marker, !.binDir0 = binDir]
    /\ cancelled' = FALSE
    /\ next' = 0
    /\ sem' = 0
    /\ pc' = [p \in Progs |-> "waiting"]
    /\ version' = [p \in Progs |-> NoVersion]
    /\ attempt' = [p \in Progs |-> 0]
    /\ lastErr' = [p \in Progs |-> NoErr]
    /\ tmpFile' = [p \in Progs |-> FALSE]
    /\ tmpCount' = [p \in Progs |-> 0]
    /\ bins' = [p \in Progs |-> programs[p].Bin]
    /\ linkIdx' = [p \in Progs |-> 1]
    /\ ch' = <<>>
    /\ chClosed' = FALSE
    /\ binCh' = [p \in Progs |-> [st |-> "none", val |-> <<>>]]
    /\ emitted' = [p \in Progs |-> <<>>]
    /\ calls' = [p \in Progs |-> [resolve |-> 0, download |-> 0, extract |-> 0]]
    /\ linked' = [p \in Progs |-> <<>>]
    /\ dl' = [p \in Progs |-> <<>>]
    /\ answered' = [p \in Progs |-> [done |-> FALSE, val |-> <<>>]]
    /\ hist' = [p \in Progs |-> NoHist]
    /\ cancelAt' = [p \in Progs |-> "none"]
    /\ screen' = "selector"
    /\ preflight' = <<>>
    /\ entries' = [p \in Progs |->
                    [state |-> StatePending, version |-> NoVersion, err |-> NoErr]]
    /\ pickerQueue' = <<>>
    /\ activePicker' = 0
    /\ picker' = NoPicker
    /\ fdone' = FALSE
    /\ reading' = FALSE
    /\ inbox' = <<>>
    /\ UNCHANGED <<programs, marker, binDir>>

NextRerun ==
    \/ Next
    \/ Rerun

SpecRerun == InitRerun /\ [][NextRerun]_vars

TypeOK ==
    /\ sem \in 0..workerCount
    /\ next \in 0..(N + 1)
    /\ \A p \in Progs : attempt[p] \in 0..MaxAttempts /\ tmpCount[p] \in 0..1

\* ---------------------------------------------------------------------------
\* Properties
\* ---------------------------------------------------------------------------
\* where a task is once it has sent its terminal message: before and after
\* the deferred os.Remove(tmpFile), after <-sem, after wg.Done()
Ended == {"terminal", "returned", "released", "exited"}

\* programs that hold a slot, and those of them that are not yet terminal
SlotHolders == { p \in Progs : pc[p] \notin {"waiting", "released", "exited"} }
MidPipeline == { p \in Progs : pc[p] \notin {"waiting"} \cup Ended }

\* the messages of emitted[p] that carry one of the states given
EventsIn(p, states) == { i \in 1..Len(emitted[p]) : emitted[p][i].State \in states }

\* C1: at most workerCount programs hold a slot (so at most workerCount are
\* mid-pipeline), and a program still waiting for its slot has sent no event
\* and has made no resolver call.
C1_PoolBound ==
    /\ Cardinality(SlotHolders) <= workerCount
    /\ Cardinality(MidPipeline) <= workerCount
    /\ sem = Cardinality(SlotHolders)
    /\ \A p \in Progs :
         pc[p] = "waiting" => emitted[p] = <<>> /\ calls[p].resolve = 0 /\ StateOf(p) = StatePending

\* the pool is full of programs in mid-pipeline while another program waits
C1_Witness ==
    /\ N > workerCount
    /\ Cardinality(MidPipeline) = workerCount
    /\ \E p \in Progs : pc[p] = "waiting"
    /\ sem = workerCount

\* the marker found on disk holds, up to surrounding white space, version v
MarkerHolds(p, v) ==
    /\ world.marker0[p].exists
    /\ world.marker0[p].readable
    /\ TrimSpace(world.marker0[p].content) = v

\* C2: a program whose marker on disk equals the version the resolver returned
\* is skipped as soon as the version is known: one resolver call, no download
\* attempt, no extraction, no link, no request, and the marker is untouched.
C2_SkipUpToDate ==
    \A p \in Progs :
      (version[p] # NoVersion /\ MarkerHolds(p, version[p])) =>
        /\ StateOf(p) = StateSkipped
        /\ calls[p] = [resolve |-> 1, download |-> 0, extract |-> 0]
        /\ dl[p] = <<>>
        /\ linked[p] = <<>>
        /\ binCh[p].st = "none"
        /\ marker[p] = world.marker0[p]
        /\ tmpCount[p] = 0

\* a program whose marker ends in a carriage return and a newline has been
\* skipped
C2_WitnessCRLF ==
    \E p \in Progs :
      /\ world.marker0[p] = UpToDateCRLF
      /\ version[p] = <<"1">>
      /\ StateOf(p) = StateSkipped

\* a program whose marker ends in a newline has been skipped and has exited
C2_Witness ==
    \E p \in Progs :
      /\ world.marker0[p] = UpToDate
      /\ version[p] = <<"1">>
      /\ pc[p] = "exited"
      /\ StateOf(p) = StateSkipped

\* the download attempts of p that failed
FailedAttempts(p) == { i \in 1..Len(dl[p]) : dl[p][i] # NoErr }

\* C3: no program makes more than MaxAttempts download attempts; when the
\* first two fail and the third succeeds the message after downloading is
\* extracting, and when all fail the program ends in error with the reason of
\* the last attempt.
C3_Retry ==
    \A p \in Progs :
      /\ Len(dl[p]) <= MaxAttempts
      /\ calls[p].download <= MaxAttempts
      /\ (Len(dl[p]) = MaxAttempts /\ FailedAttempts(p) = 1..(MaxAttempts - 1)) =>
           /\ Len(emitted[p]) >= 3
           /\ emitted[p][3].State = StateExtracting
           /\ EventsIn(p, {StateError}) \subseteq { i \in 1..Len(emitted[p]) : i > 3 }
           /\ \A i \in EventsIn(p, {StateError}) : Head(emitted[p][i].Err) # "download"
      /\ (FailedAttempts(p) = 1..MaxAttempts) =>
           /\ StateOf(p) = StateError
           /\ ErrOf(p) = <<"download">> \o dl[p][MaxAttempts]
           /\ EventsIn(p, {StateExtracting}) = {}

\* two different failures, then a success, and the program is extracting
C3_Witness ==
    \E p \in Progs :
      /\ Len(dl[p]) = MaxAttempts
      /\ dl[p][1] # NoErr /\ dl[p][2] # NoErr /\ dl[p][1] # dl[p][2]
      /\ dl[p][MaxAttempts] = NoErr
      /\ StateOf(p) = StateExtracting

\* three failures, the last unlike the first, and the program's error is shown
C3_WitnessExhausted ==
    \E p \in Progs :
      /\ FailedAttempts(p) = 1..MaxAttempts
      /\ dl[p][1] # dl[p][MaxAttempts]
      /\ StateOf(p) = StateError

\* C4: a task that was sleeping between retries, waiting for the resolver or
\* the download, or blocked on its bin-selection reply when the context was
\* cancelled sends neither done nor skipped, and its terminal message is an
\* error whose reason is the cancellation.
C4_CancelIsError ==
    \A p \in Progs :
      cancelAt[p] \in SuspensionPoints =>
        /\ EventsIn(p, {StateDone, StateSkipped}) = {}
        /\ pc[p] \in Ended =>
             /\ StateOf(p) = StateError
             /\ ErrOf(p)[Len(ErrOf(p))] = ErrCanceled

\* a task cancelled in its back-off sleep has ended in error
C4_Witness ==
    \E p \in Progs :
      /\ cancelAt[p] = "sleeping"
      /\ pc[p] = "exited"
      /\ StateOf(p) = StateError

\* a task cancelled while its download request was in flight has ended in
\* error
C4_WitnessCalls ==
    \E p \in Progs : /\ cancelAt[p] = "downloading"
                     /\ pc[p] = "exited"
                     /\ StateOf(p) = StateError

\* a task cancelled while blocked on its reply has ended in error
C4_WitnessAwaiting ==
    \E p \in Progs : /\ cancelAt[p] = "awaiting"
                     /\ pc[p] = "exited"
                     /\ ErrOf(p) = <<ErrCanceled>>

\* a task cancelled while it read the body of its download, and one whose
\* resolver call broke off while the answer was decoded, have ended in error
C4_WitnessCopy ==
    /\ \E p \in Progs : cancelAt[p] = "copying" /\ pc[p] = "exited"
    /\ \E p \in Progs : /\ cancelAt[p] = "decoding"
                        /\ pc[p] = "exited"
                        /\ ErrOf(p) = <<"decode", ErrCanceled>>

\* C5: a program with an empty link list sends exactly one bin-selection
\* request once extraction has succeeded, links exactly the pairs of the
\* reply, in order, and with an empty reply reaches done without any link.
C5_BinSelection ==
    \A p \in Progs :
      programs[p].Bin = <<>> =>
        /\ Cardinality(EventsIn(p, {StateAwaitingBinSelection})) <= 1
        /\ EventsIn(p, {StateLinking}) # {} =>
             Cardinality(EventsIn(p, {StateAwaitingBinSelection})) = 1
        /\ (answered[p].done /\ EventsIn(p, {StateLinking}) # {}) =>
             /\ bins[p] = answered[p].val
             /\ Len(linked[p]) <= Len(answered[p].val)
             /\ \A i \in 1..Len(linked[p]) : linked[p][i].bin = answered[p].val[i]
             /\ StateOf(p) = StateDone =>
                  /\ Len(linked[p]) = Len(answered[p].val)
                  /\ \A i \in 1..Len(linked[p]) : linked[p][i].err = NoErr
        /\ (answered[p].done /\ answered[p].val = <<>> /\ pc[p] = "exited" /\ ~cancelled) =>
             StateOf(p) = StateDone /\ linked[p] = <<>>
        /\ ~answered[p].done => linked[p] = <<>>

\* the operator named two links and the program has published both
C5_Witness ==
    \E p \in Progs :
      /\ programs[p].Bin = <<>>
      /\ answered[p].done
      /\ Len(answered[p].val) = 2
      /\ StateOf(p) = StateDone
      /\ Len(linked[p]) = 2

\* the operator declined to add a link and the program is done without one
C5_WitnessEmpty ==
    \E p \in Progs :
      /\ programs[p].Bin = <<>>
      /\ answered[p].done
      /\ answered[p].val = <<>>
      /\ StateOf(p) = StateDone
      /\ linked[p] = <<>>
      /\ pc[p] = "exited"

\* C6: when the operator quits in a picker, the front end closes the reply
\* channel of every task that is blocked on a bin-selection reply.
C6_QuitReleasesAll ==
    [][(screen = "picker" /\ screen' = "quit") =>
         \A p \in Progs :
           (pc[p] = "awaiting" /\ binCh[p].st = "open") => binCh'[p].st = "closed"]_vars

\* C7: the event channel is closed only when every program has been admitted,
\* has sent its terminal message and has exited, and once it is closed no
\* program sends a message.
C7_CloseAfterAll ==
    /\ [](chClosed => \A p \in Progs : pc[p] = "exited" /\ StateOf(p) \in TerminalStates)
    /\ [][chClosed => (emitted' = emitted /\ Len(ch') <= Len(ch))]_vars

\* the channel is closed after a run with more programs than slots, in which
\* programs ended in error and in skipped
C7_Witness ==
    /\ chClosed
    /\ N > workerCount
    /\ \E p \in Progs : StateOf(p) = StateError
    /\ \E p \in Progs : StateOf(p) = StateSkipped

\* position of a state in the pipeline
Rank(s) ==
    CASE s = StatePending -> 0
      [] s = StateFetchingVersion -> 1
      [] s = StateDownloading -> 2
      [] s = StateExtracting -> 3
      [] s = StateAwaitingBinSelection -> 4
      [] s = StateLinking -> 5
      [] s \in TerminalStates -> 6

\* the messages of program p that are still in the channel
InChannel(p) == LET IsP(m) == m.Program = p IN SelectSeq(ch, IsP)

\* C8: the messages of a program are sent, and lie in the channel, in pipeline
\* order; the first is fetching-version; a program sends exactly one terminal
\* message, and it is its last.
C8_EventOrder ==
    \A p \in Progs :
      LET e == emitted[p] IN
      /\ \A i \in 1..(Len(e) - 1) : Rank(e[i].State) < Rank(e[i + 1].State)
      /\ e # <<>> => e[1].State = StateFetchingVersion
      /\ Cardinality(EventsIn(p, TerminalStates)) <= 1
      /\ EventsIn(p, TerminalStates) \subseteq {Len(e)}
      /\ pc[p] \in Ended <=> EventsIn(p, TerminalStates) # {}
      /\ Len(InChannel(p)) <= Len(e)
      /\ InChannel(p) = SubSeq(e, Len(e) - Len(InChannel(p)) + 1, Len(e))

\* a program has gone through every state of the pipeline, the request for
\* its bins included
C8_Witness ==
    \E p \in Progs :
      /\ Len(emitted[p]) = 6
      /\ StateOf(p) = StateDone
      /\ pc[p] = "exited"

\* a program has ended in error while linking, after a first link
C8_WitnessError ==
    \E p \in Progs :
      /\ StateOf(p) = StateError
      /\ Len(linked[p]) = 2
      /\ Head(ErrOf(p)) = "link"

\* the task of p can take its next step. The extraction step sends exactly
\* one message whatever its outcome, so it can be taken when the channel has
\* room; the other steps are asked of the actions themselves.
CanStep(p) ==
    \/ pc[p] = "extracting" /\ Len(ch) < Cap
    \/ ENABLED (Start(p) \/ ResolveDo(p) \/ ResolveDecode(p) \/ DownloadDo(p) \/ DownloadCopy(p)
                  \/ Wake(p) \/ AwaitReturn(p) \/ LinkLstat(p) \/ LinkRemove(p)
                  \/ LinkSymlink(p) \/ Finish(p) \/ RemoveTmp(p) \/ ReleaseSlot(p))

Outcome(p) ==
    IF version[p] = NoVersion THEN StateError
    ELSE IF MarkerHolds(p, version[p]) THEN StateSkipped
    ELSE IF dl[p] = <<>> \/ dl[p][Len(dl[p])] # NoErr THEN StateError
    ELSE IF calls[p].extract = 0 \/ hist[p].wrote = "none" THEN StateError
    ELSE IF programs[p].Bin = <<>> /\ EventsIn(p, {StateLinking}) = {} THEN StateError
    ELSE IF \E i \in 1..Len(linked[p]) : linked[p][i].err # NoErr THEN StateError
    ELSE StateDone

C9_WitnessRetry ==
    \E p, q \in Progs :
      /\ p # q
      /\ StateOf(p) = StateDone
      /\ pc[p] = "exited"
      /\ StateOf(q) = StateError
      /\ Len(dl[q]) = MaxAttempts

\* a program has gone on to linking while the picker of another program was
\* still open
C9_WitnessPicker ==
    \E p, q \in Progs :
      /\ p # q
      /\ activePicker = q
      /\ pc[q] = "awaiting"
      /\ pc[p] = "linking"

\* C10: a temporary file of a task exists only while an attempt reads the
\* body, and between its successful download attempt and the return of
\* install: a failed attempt leaves none, and a task that has returned has
\* none, however it ended.
C10_TempRemoved ==
    \A p \in Progs :
      /\ tmpCount[p] = (IF \/ pc[p] = "copying"
                            \/ (tmpFile[p] /\ pc[p] \notin {"returned", "released", "exited"})
                         THEN 1 ELSE 0)
      /\ pc[p] \in {"returned", "released", "exited"} => tmpCount[p] = 0
      /\ tmpFile[p] <=> (dl[p] # <<>> /\ dl[p][Len(dl[p])] = NoErr)

\* a task whose first attempt broke off during the copy, whose second attempt
\* succeeded and whose extraction failed has exited
C10_Witness ==
    \E p \in Progs :
      /\ Len(dl[p]) = 2
      /\ dl[p][1] = <<"unexpected EOF">>
      /\ tmpFile[p]
      /\ StateOf(p) = StateError
      /\ pc[p] = "exited"

\* a task cancelled with its download on disk has exited
C10_WitnessCancel ==
    \E p \in Progs :
      /\ tmpFile[p]
      /\ cancelAt[p] = "awaiting"
      /\ StateOf(p) = StateError
      /\ pc[p] = "exited"

\* the Link calls of p that succeeded
Published(p) == { i \in 1..Len(linked[p]) : linked[p][i].err = NoErr }

\* C11: a program that is done has published every link of its list, in
\* order, and its marker on disk holds the version of the done message; the
\* marker was written before the linking message was sent.
C11_DoneMarker ==
    \A p \in Progs :
      /\ EventsIn(p, {StateLinking}) # {} => hist[p].wrote # "none"
      /\ StateOf(p) = StateDone =>
           /\ Published(p) = 1..Len(bins[p])
           /\ \A i \in 1..Len(bins[p]) : linked[p][i].bin = bins[p][i]
           /\ marker[p] = [exists |-> TRUE, readable |-> TRUE,
                           content |-> emitted[p][Len(emitted[p])].Version]

\* the Link call that a step of p has just made (<<>> when it made none)
LinkCall(p) ==
    IF Len(linked'[p]) = Len(linked[p]) + 1 THEN <<linked'[p][Len(linked'[p])]>> ELSE <<>>

\* C12: the links of a program are attempted in list order; the first one
\* that fails is the last one attempted and ends the program in error; the
\* failing step leaves the bin directory as it was, and a link name changes
\* only in the Remove or Symlink step of a Link call on that name.
C12_FirstFailureAborts ==
    /\ [](\A p \in Progs :
            /\ Len(linked[p]) <= Len(bins[p])
            /\ \A i \in 1..Len(linked[p]) : linked[p][i].bin = bins[p][i]
            /\ \A i \in 1..(Len(linked[p]) - 1) : linked[p][i].err = NoErr
            /\ (linked[p] # <<>> /\ linked[p][Len(linked[p])].err # NoErr) =>
                 /\ pc[p] \in Ended
                 /\ StateOf(p) = StateError
                 /\ ErrOf(p) = <<"link">> \o linked[p][Len(linked[p])].err)
    /\ [][/\ \A p \in Progs :
               (LinkCall(p) # <<>> /\ LinkCall(p)[1].err # NoErr) => binDir' = binDir
          /\ \A n \in LinkNames :
               binDir'[n] # binDir[n] =>
                 \E p \in Progs : /\ pc[p] \in {"removing", "symlinking"}
                                  /\ pc'[p] # pc[p]
                                  /\ CurrentBin(p).Dst = n]_vars

\* the second link of a program has failed and the first is still in place
C12_Witness ==
    \E p \in Progs :
      /\ Len(linked[p]) = 2
      /\ linked[p][1].err = NoErr
      /\ linked[p][2].err # NoErr
      /\ linked[p][1].bin.Dst # linked[p][2].bin.Dst
      /\ binDir[linked[p][1].bin.Dst] = Symlink(LinkSource(p, linked[p][1].bin))
      /\ StateOf(p) = StateError
      /\ pc[p] = "exited"

\* C13: a Link call that finds a regular file fails and leaves the file; one
\* that finds a symbolic link or nothing succeeds unless the disk fails, and
\* when it succeeds the name is afterwards a symbolic link to the new source.
C13_Link ==
    [][\A p \in Progs :
         LinkCall(p) # <<>> =>
           LET call == LinkCall(p)[1]
               found == hist'[p].found[Len(hist'[p].found)]
               after == binDir'[call.bin.Dst]
               src == LinkSource(p, call.bin)
           IN /\ found.kind = "file" =>
                   /\ call.err = <<"already exists as a regular file">>
                   /\ after = binDir[call.bin.Dst]
              /\ found.kind # "file" =>
                   /\ call.err \in {NoErr, <<"remove existing symlink">>, <<"create symlink">>}
                   /\ call.err = NoErr => after = Symlink(src)
                   /\ "link" \notin world.faults => call.err = NoErr]_vars

\* a symbolic link that was there before the run points at the new source
C13_Witness ==
    \E p \in Progs : \E i \in Published(p) :
      /\ world.binDir0[linked[p][i].bin.Dst].kind = "symlink"
      /\ binDir[linked[p][i].bin.Dst] = Symlink(LinkSource(p, linked[p][i].bin))
      /\ binDir[linked[p][i].bin.Dst] # world.binDir0[linked[p][i].bin.Dst]

\* a regular file was in the way: the link failed and the file is still there
C13_WitnessFile ==
    \E p \in Progs :
      /\ linked[p] # <<>>
      /\ linked[p][Len(linked[p])].err = <<"already exists as a regular file">>
      /\ binDir[linked[p][Len(linked[p])].bin.Dst] = RegularFile

\* C14: a program whose marker is missing, cannot be read or holds something
\* other than the resolved version is never skipped and never fails on the
\* marker: the message after fetching-version is downloading, and the first
\* download attempt is made.
C14_MarkerNeverFatal ==
    \A p \in Progs :
      (version[p] # NoVersion /\ ~MarkerHolds(p, version[p])) =>
        /\ Len(emitted[p]) >= 2
        /\ emitted[p][1].State = StateFetchingVersion
        /\ emitted[p][2].State = StateDownloading
        /\ EventsIn(p, {StateSkipped}) = {}
        /\ calls[p].download >= 1

\* a program whose marker holds the latest version but cannot be read is
\* downloading
C14_Witness ==
    \E p \in Progs :
      /\ world.marker0[p] = Unreadable
      /\ version[p] = <<"1">>
      /\ StateOf(p) = StateDownloading

\* programs without a marker, and with a marker of another version, have
\* been installed
C14_WitnessStale ==
    \E p \in Progs :
      /\ world.marker0[p] = Stale
      /\ StateOf(p) = StateDone

\* C15: a task that was in its back-off sleep when the context was cancelled
\* makes no further download attempt and does not finish the sleep; it ends in
\* error with the cancellation as reason, not with its last download failure.
C15_CancelAbandonsSleep ==
    \A p \in Progs :
      cancelAt[p] = "sleeping" =>
        /\ pc[p] \in {"sleeping"} \cup Ended
        /\ calls[p].download = Len(dl[p])
        /\ Len(dl[p]) = attempt[p]
        /\ Len(dl[p]) < MaxAttempts
        /\ Len(hist[p].slept) = Len(dl[p]) - 1
        /\ pc[p] # "sleeping" =>
             /\ StateOf(p) = StateError
             /\ ErrOf(p) = <<"download", ErrCanceled>>
             /\ ErrOf(p) # <<"download">> \o lastErr[p]

\* a task cancelled in the sleep before its third attempt has ended in error
C15_Witness ==
    \E p \in Progs :
      /\ cancelAt[p] = "sleeping"
      /\ Len(dl[p]) = 2
      /\ hist[p].slept = <<1>>
      /\ StateOf(p) = StateError
      /\ pc[p] = "exited"

\* C16: nothing is slept before the first download attempt, the delay slept
\* before the k-th retry is 2^(k-1), and a program that goes through all its
\* retries has slept the delays 1, 2, 4.
C16_Delays ==
    \A p \in Progs :
      /\ calls[p].download <= 1 => hist[p].slept = <<>>
      /\ calls[p].download >= 1 => Len(hist[p].slept) = calls[p].download - 1
      /\ \A k \in 1..Len(hist[p].slept) : hist[p].slept[k] = 2 ^ (k - 1)
      /\ (FailedAttempts(p) = 1..MaxAttempts /\ pc[p] \in Ended) =>
           hist[p].slept = <<1, 2, 4>>

\* C17: a download attempt succeeds only with status 200 and a body that is
\* not empty; an attempt whose body is empty fails, so that the program does
\* not start extracting on it.
C17_EmptyBodyFails ==
    \A p \in Progs :
      \A i \in 1..Len(dl[p]) :
        /\ dl[p][i] = NoErr => hist[p].got[i].status = "200" /\ hist[p].got[i].body > 0
        /\ hist[p].got[i].body = 0 => dl[p][i] # NoErr /\ EventsIn(p, {StateExtracting}) = {}

\* C18: only a program whose descriptor has no links sends a bin-selection
\* request; a program with links sends linking right after extracting, links
\* the pairs of its descriptor, has no reply channel and is never found
\* waiting for a reply.
C18_RequestOnlyWhenEmpty ==
    \A p \in Progs :
      /\ EventsIn(p, {StateAwaitingBinSelection}) # {} => programs[p].Bin = <<>>
      /\ programs[p].Bin # <<>> =>
           /\ pc[p] # "awaiting"
           /\ binCh[p].st = "none"
           /\ hist[p].sends = 0 /\ hist[p].closes = 0
           /\ bins[p] = programs[p].Bin
           /\ \A i \in EventsIn(p, {StateLinking}) :
                i > 1 /\ emitted[p][i - 1].State = StateExtracting

\* a program with two links is done after five messages, while beside
\* programs with links none has asked for bins
C18_Witness ==
    \E p \in Progs :
      /\ Len(programs[p].Bin) = 2
      /\ StateOf(p) = StateDone
      /\ Len(emitted[p]) = 5
      /\ Len(linked[p]) = 2

\* C19: the front end never both sends on and closes a reply channel and
\* never sends twice, and when it quits it has done one of the two for every
\* request that was made.
C19_FulfilledOnce ==
    /\ \A p \in Progs : hist[p].sends + hist[p].closes <= 1
    /\ \A p \in Progs : binCh[p].st = "none" => hist[p].sends + hist[p].closes = 0
    /\ screen = "quit" =>
         \A p \in Progs : binCh[p].st # "none" => hist[p].sends + hist[p].closes = 1

\* C20: a program whose version resolution failed has sent fetching-version
\* and then error and nothing else, has made no download attempt, no
\* extraction and no link and left the marker alone; its error is the
\* not-found error exactly for status 404 and the rate-limit error exactly for
\* status 403 or 429.
C20_ResolutionFailure ==
    \A p \in Progs :
      (calls[p].resolve = 1 /\ pc[p] \notin {"resolving", "decoding"}) =>
        LET r == hist[p].resp
            failed == version[p] = NoVersion
        IN /\ failed <=> ~(r.do = "ok" /\ r.status = "200" /\ r.decode = "ok"
                              /\ r.tag \notin {<<>>, <<"v">>})
           /\ failed =>
                /\ Len(emitted[p]) = 2
                /\ emitted[p][1].State = StateFetchingVersion
                /\ emitted[p][2].State = StateError
                /\ pc[p] \in Ended
                /\ calls[p].download = 0 /\ calls[p].extract = 0
                /\ dl[p] = <<>> /\ linked[p] = <<>>
                /\ marker[p] = world.marker0[p]
                /\ binDir = world.binDir0 \/ N > 1
                /\ ErrOf(p) = <<"not found">> <=> (r.do = "ok" /\ r.status = "404")
                /\ ErrOf(p) = <<"rate limited">> <=> (r.do = "ok" /\ r.status \in {"403", "429"})

\* a program that was answered 429 has ended with the rate-limit error
C20_Witness ==
    \E p \in Progs :
      /\ calls[p].resolve = 1
      /\ pc[p] = "exited"
      /\ hist[p].resp.status = "429"
      /\ ErrOf(p) = <<"rate limited">>

\* a program whose repository does not exist has ended with the not-found
\* error while the pool went on
C20_WitnessNotFound ==
    \E p \in Progs :
      /\ programs[p].Repo = "missing"
      /\ pc[p] = "exited"
      /\ ErrOf(p) = <<"not found">>

\* C21: the tag segment of the download URL a task builds is the tag the
\* resolver was given for the release.
C21_RawTagInURL ==
    \A p \in Progs :
      calls[p].download >= 1 => hist[p].url.tag = hist[p].resp.tag

\* C22: when the resolver succeeds it returns the tag exactly as the API gave
\* it together with the tag without one leading "v" (the tag itself when it has
\* none), and the version is not empty; a well-formed answer whose tag is
\* empty or just "v" is a failure, every other well-formed answer a success.
C22_TagAndVersion ==
    (trial.fn = "LatestRelease" /\ trial.done) =>
      LET in == trial.in
          r == trial.out
          wellFormed == in.do = "ok" /\ in.status = "200" /\ in.decode = "ok"
      IN /\ r.err = NoErr =>
              /\ wellFormed
              /\ r.tag = in.tag
              /\ r.version # <<>>
              /\ IF Head(in.tag) = "v" THEN r.version = Tail(in.tag) ELSE r.version = in.tag
         /\ (wellFormed /\ in.tag \in {<<>>, <<"v">>}) => r.err = <<"empty tag_name">>
         /\ (wellFormed /\ in.tag \notin {<<>>, <<"v">>}) => r.err = NoErr

\* a tag with the prefix has come back raw with its version stripped
C22_Witness ==
    /\ trial.fn = "LatestRelease" /\ trial.done
    /\ trial.in.tag = <<"v", "1", ".">>
    /\ trial.out = [tag |-> <<"v", "1", ".">>, version |-> <<"1", ".">>, err |-> NoErr]

\* a bare tag has come back as both tag and version
C22_WitnessBare ==
    /\ trial.fn = "LatestRelease" /\ trial.done
    /\ trial.in.tag = <<"1", ".", "1">>
    /\ trial.out.err = NoErr
    /\ trial.out.tag = trial.out.version

\* C23: the strategy Extract takes is decided by the suffix of the base name
\* of the artifact's file alone, and every name has exactly one: .tar.gz and
\* .tgz are read by extractTar as gzip-tar, .tar.xz and .txz as xz-tar,
\* .tar.bz2 as bzip2-tar, .zip by extractZip (so that bytes of another kind
\* are refused, and a file that cannot be opened fails in the strategy, with
\* that strategy's error), and an artifact of any other name is copied into
\* the empty destination as one file of mode 0755 that bears the file's name.
C23_Dispatch ==
    (trial.fn = "Extract" /\ trial.round >= 1) =>
      LET n == trial.src[1]
          o == trial.out[1]
          ends(x) == HasSuffix(n, <<".">> \o x)
          gz == ends(<<"t", "a", "r", ".", "g", "z">>) \/ ends(<<"t", "g", "z">>)
          xz == ends(<<"t", "a", "r", ".", "x", "z">>) \/ ends(<<"t", "x", "z">>)
          bz2 == ends(<<"t", "a", "r", ".", "b", "z", "2">>)
          zip == ends(<<"z", "i", "p">>)
          expected == IF gz THEN "gz" ELSE IF xz THEN "xz" ELSE IF bz2 THEN "bz2"
                      ELSE IF zip THEN "zip" ELSE "raw"
      IN /\ Format(n) = expected
         /\ expected \in {"gz", "xz", "bz2"} =>
              o = extractTar(trial.art, EmptyDir, expected, trial.fs)
         /\ expected = "zip" => o = extractZip(trial.art, EmptyDir, trial.fs)
         /\ expected = "raw" => o = copyBinary(n, trial.art, EmptyDir, trial.fs)
         /\ (expected # "raw" /\ o.err = NoErr) =>
              /\ trial.fs = "ok" /\ trial.art.container = expected /\ trial.art.intact
              /\ \A f \in o.dir : f.kind = "file" => f.mode = "hdr"
         /\ (expected # "raw" /\ trial.fs = "ok" /\ trial.art.container # expected) =>
              o.err # NoErr /\ o.dir = EmptyDir
         /\ (expected = "raw" /\ trial.fs = "ok") =>
              /\ o.err = NoErr
              /\ o.dir = {Node(<<n>>, "file", "0755", trial.art.bytes)}
         /\ trial.fs = "open" =>
              /\ o.dir = EmptyDir
              /\ o.err = IF expected = "zip" THEN <<"open zip", "open">> ELSE <<"open">>

\* an xz-tar named .txz has been unpacked into a directory and a file
C23_Witness ==
    /\ trial.fn = "Extract" /\ trial.round >= 1
    /\ trial.name = <<"a", ".", "t", "x", "z">>
    /\ trial.fs = "ok"
    /\ trial.out[1].err = NoErr
    /\ Node(<<"d", "b">>, "file", "hdr", 1) \in trial.out[1].dir

\* a gzip-tar named .gz, which no case of the dispatch matches, has been copied
C23_WitnessRaw ==
    /\ trial.fn = "Extract" /\ trial.round >= 1
    /\ trial.name = <<"a", ".", "g", "z">>
    /\ trial.art.container = "gz"
    /\ trial.out[1].err = NoErr
    /\ trial.out[1].dir = {Node(<<trial.src[1]>>, "file", "0755", trial.art.bytes)}

\* a file named .zip that could not be opened has failed in extractZip
C23_WitnessOpen ==
    /\ trial.fn = "Extract" /\ trial.round >= 1
    /\ trial.name = <<"a", ".", "z", "i", "p">>
    /\ trial.fs = "open"
    /\ trial.out[1].err = <<"open zip", "open">>

\* C24: once extraction has returned for an artifact whose name the dispatch
\* does not recognize, the message that follows extracting is an error whose
\* reason is an extraction failure.
C24_UnsupportedFormat ==
    \A p \in Progs :
      (hist[p].how = "raw" /\ pc[p] # "extracting") =>
        \A i \in EventsIn(p, {StateExtracting}) :
          /\ i < Len(emitted[p])
          /\ emitted[p][i + 1].State = StateError
          /\ Head(emitted[p][i + 1].Err) = "extract"

\* C30: two extractions of the same artifact, each from the file it was
\* downloaded to and into an empty directory, end with the same error or
\* success and leave the same nodes behind.
C30_SameContents ==
    (trial.fn = "Extract" /\ trial.round = 2) =>
      /\ trial.out[1].err = trial.out[2].err
      /\ trial.out[1].dir = trial.out[2].dir

\* the commands the selected programs require, and those of them not on PATH
RequiredCommands ==
    UNION { { programs[p].Packages[i] : i \in 1..Len(programs[p].Packages) } : p \in Progs }

MissingCommands == RequiredCommands \ world.path

\* C25: while a command required by some selected program is missing, Run has
\* not been called: no program holds a slot, none has sent an event or made a
\* call, and no marker and no link has been touched; the pre-flight screen
\* lists exactly the missing commands.
C25_NoPartialInstall ==
    /\ MissingCommands # {} =>
         /\ next = 0
         /\ sem = 0 /\ ch = <<>> /\ ~reading
         /\ screen \in {"selector", "preflight", "quit"}
         /\ marker = world.marker0 /\ binDir = world.binDir0
         /\ \A p \in Progs :
              /\ pc[p] = "waiting" /\ emitted[p] = <<>>
              /\ calls[p] = [resolve |-> 0, download |-> 0, extract |-> 0]
    /\ screen = "preflight" =>
         /\ MissingCommands # {}
         /\ { preflight[i] : i \in 1..Len(preflight) } = MissingCommands
         /\ Len(preflight) = Cardinality(MissingCommands)

\* the first program has all it requires, the second lacks git: the
\* pre-flight screen is shown and nothing has started
C25_Witness ==
    /\ screen = "preflight"
    /\ world.path = {"tar"}
    /\ preflight = <<"git">>
    /\ programs[1].Packages = <<"tar">>

\* every required command is there, and a program that requires one is done
C25_WitnessLaunched ==
    /\ MissingCommands = {}
    /\ \E p \in Progs : programs[p].Packages # <<>> /\ StateOf(p) = StateDone

\* the tasks that have written the link named n in the bin directory
LinkWriters(n) ==
    { p \in Progs : \E i \in 1..Len(linked[p]) :
                      linked[p][i].bin.Dst = n /\ linked[p][i].err = NoErr }

\* C26: no path is written by two tasks: every link in the bin directory has
\* been written by at most one task, and a marker changes only in a step of
\* the task of its own program.
C26_NoSharedPath ==
    /\ [](\A n \in LinkNames : Cardinality(LinkWriters(n)) <= 1)
    /\ [][\A p \in Progs : marker'[p] # marker[p] => (pc[p] = "extracting" /\ pc'[p] # "extracting")]_vars

\* C27: the channel never holds more than its capacity, no program sends more
\* than EventsPerProgram messages, and while some task has a message still to
\* send the channel has a free place, whether or not the front end reads.
C27_NeverBlocks ==
    /\ Len(ch) <= Cap
    /\ \A p \in Progs : Len(emitted[p]) <= EventsPerProgram
    /\ (\E p \in Progs : pc[p] \notin Ended) => Len(ch) < Cap

\* the front end has stopped reading for good, four or more messages wait
\* in the channel and a task is still in the middle of its pipeline
C27_Witness ==
    /\ screen = "quit"
    /\ ~fdone
    /\ Len(ch) >= 4
    /\ MidPipeline # {}

\* every program has a terminal install record and the channel is closed
Finished == chClosed /\ \A p \in Progs : StateOf(p) \in TerminalStates

\* the request of program p is not pending: p is not blocked on a reply
\* channel that has neither a value nor been closed
Served(p) == p \in Progs => (pc[p] = "awaiting" => binCh[p].st \in {"replied", "closed"})

\* C28: when every collaborator call returns (the scheduler is fair to every
\* task) and every bin-selection request is eventually answered or its channel
\* closed, a run that has been started eventually has every selected program
\* in a terminal state (done, skipped or error) and its event channel closed.
C28_Termination ==
    (\A p \in 1..LiveRun : []<>Served(p)) => []((next >= 1) => <>Finished)

\* a run ends with a program done after the operator answered its request
C28_Witness ==
    /\ Finished
    /\ \E p \in Progs : answered[p].done /\ StateOf(p) = StateDone

\* a run ends with a program whose reply channel was closed without a value
C28_WitnessClosed ==
    /\ Finished
    /\ \E p \in Progs : binCh[p].st = "closed" /\ hist[p].closes = 1

\* C29: after a cancellation no task stays suspended: every selected program
\* of a started run, those still waiting for a free slot included, eventually
\* reaches a terminal state and the event channel is eventually closed.
C29_CancelTerminates == [](cancelled /\ next >= 1 => <>Finished)

\* a cancelled run has ended, and a program was waiting for a slot when the
\* cancellation came
C29_Witness ==
    /\ cancelled
    /\ Finished
    /\ \E p \in Progs : cancelAt[p] = "waiting" /\ StateOf(p) = StateError

\* a cancelled run has ended, and a program was blocked on its reply channel
\* when the cancellation came
C29_WitnessAwaiting ==
    /\ cancelled
    /\ Finished
    /\ \E p \in Progs : cancelAt[p] = "awaiting" /\ ErrOf(p) = <<ErrCanceled>>

\* C31: every event is a snapshot of the install record: once an event of a
\* program carries its resolved version, every later event of that program,
\* its error event included, carries the same version.
C31_EventsCarryVersion ==
    \A p \in Progs :
      \A i, j \in 1..Len(emitted[p]) :
        (i < j /\ emitted[p][i].Version # NoVersion) =>
          emitted[p][j].Version = emitted[p][i].Version

\* C32: the front end has marked the run complete only when every selected
\* program is displayed as done, skipped or error and no bin-selection request
\* is queued.
C32_DoneOnlyWhenAllTerminal ==
    fdone =>
      /\ Len(pickerQueue) = 0
      /\ \A p \in Progs : entries[p].state \in TerminalStates

\* the run of two programs is marked complete, one displayed done, one error
C32_Witness ==
    /\ fdone
    /\ \E p, q \in Progs : /\ entries[p].state = StateDone
                           /\ entries[q].state = StateError

\* the picker of the same request before and after the step
SamePicker == screen = "picker" /\ screen' = "picker" /\ activePicker' = activePicker

\* C33: the front end replies to a request only on the operator's completion
\* (the browse step aborted, or 'add another' answered no or aborted), and the
\* reply is the list of (source, name) pairs confirmed in the naming step, in
\* the order of confirmation, each with a non-empty link name; aborting the
\* naming step adds no pair, and no other step changes the list.
C33_Reply ==
    [][ /\ \A p \in Progs :
             (binCh[p].st # "replied" /\ binCh'[p].st = "replied") =>
               /\ activePicker = p
               /\ picker.phase \in {"browse", "confirm"}
               /\ binCh'[p].val = picker.added
               /\ \A i \in 1..Len(picker.added) :
                    /\ TrimSpace(picker.added[i].Dst) # <<>>
                    /\ picker.added[i].Src \in PickerFiles
        /\ (SamePicker /\ picker.phase = "naming" /\ picker'.phase = "confirm") =>
             /\ Len(picker'.added) = Len(picker.added) + 1
             /\ SubSeq(picker'.added, 1, Len(picker.added)) = picker.added
             /\ picker'.added[Len(picker'.added)].Src = picker.selectedSrc
        /\ (SamePicker /\ ~(picker.phase = "naming" /\ picker'.phase = "confirm")) =>
             picker'.added = picker.added
      ]_vars

\* a request has been answered with two pairs
C33_Witness ==
    \E p \in Progs : /\ binCh[p].st = "replied"
                     /\ Len(binCh[p].val) = 2
                     /\ answered[p].val = binCh[p].val

\* a request has been answered without any pair: the browse step was aborted
C33_WitnessNone ==
    \E p \in Progs : binCh[p].st = "replied" /\ binCh[p].val = <<>>

\* a path relative to the destination directory that stays inside it
Inside(path) == path # <<>> /\ \A k \in 1..Len(path) : path[k] \notin {"..", ".", ""}

\* the names of the entries of the artifact under trial that climb or are
\* absolute
HostileNames ==
    { k \in 1..Len(trial.art.entries) :
        \E c \in 1..Len(trial.art.entries[k].name) :
          trial.art.entries[k].name[c] \in {"..", ""} }

\* C34: whatever the names of the archive entries, absolute names and names
\* with '..' components included, every file and directory that Extract
\* writes for a file the switch hands to extractTar or extractZip lies inside
\* the destination directory.
C34_InsideDestination ==
    trial.fn = "Extract" =>
      \A i \in 1..Len(trial.out) :
        Format(trial.src[i]) \in {"gz", "xz", "bz2", "zip"} =>
          \A n \in trial.out[i].dir : Inside(n.path)

\* an archive with an absolute name that climbs has been extracted, and its
\* file was written
C34_Witness ==
    /\ trial.fn = "Extract"
    /\ Len(trial.out) >= 1
    /\ Format(trial.src[1]) \in {"gz", "xz", "bz2", "zip"}
    /\ trial.fs = "ok"
    /\ trial.out[1].err = NoErr
    /\ \E k \in HostileNames : trial.art.entries[k].type = "reg"
    /\ \E n \in trial.out[1].dir : n.kind = "file" /\ n.data = 3 /\ n.path = <<"b">>

\* a zip archive with a directory name that climbs has been extracted
C34_WitnessDir ==
    /\ trial.fn = "Extract"
    /\ Len(trial.out) >= 1
    /\ Format(trial.src[1]) = "zip"
    /\ trial.fs = "ok"
    /\ trial.out[1].err = NoErr
    /\ \E k \in HostileNames : trial.art.entries[k].type = "dir"
    /\ \E n \in trial.out[1].dir : n.kind = "dir" /\ n.path = <<"e">>

\* the first run of program p ended in error on a link
FailedLinking(p) ==
    /\ trial.state[p] = StateError
    /\ \E i \in 1..Len(trial.linked[p]) : trial.linked[p][i].err # NoErr

\* C35: the marker is written after extraction and before the first link and
\* is never taken back, so when a run has ended in error while linking, a
\* second run that resolves the same version ends in skipped, with the links
\* on disk as the first run left them.
C35_RerunSkipped ==
    \A p \in Progs :
      (trial.round = 2 /\ FailedLinking(p) /\ version[p] # NoVersion
         /\ version[p] = trial.version[p]) =>
        /\ StateOf(p) = StateSkipped
        /\ linked[p] = <<>>
        /\ binDir = trial.binDir

\* C36: whenever the front end sends a reply on the channel of a request, the
\* task that owns the request is still blocked waiting on that channel, and
\* the send is never left waiting for a receiver, also when the cancellation
\* came while the picker was open.
C36_ReplyFindsTask ==
    [][ \A p \in Progs :
          /\ (binCh[p].st # "replied" /\ binCh'[p].st = "replied") => pc[p] = "awaiting"
          /\ binCh'[p].st # "sending"
      ]_vars

\* every task ends: each program's last event is terminal from some point on
TasksEnd == <>[](\A p \in Progs : StateOf(p) \in TerminalStates)

\* the operator completes every picker that is opened: no picker stays open
\* for ever unless the operator has completed it and its reply is being sent,
\* and none is left with ctrl+c
OperatorCompletes ==
    /\ []<>(screen # "picker" \/ (activePicker # 0 /\ binCh[activePicker].st = "sending"))
    /\ [](screen = "quit" /\ next >= 1 => fdone)

\* the front end has taken in the terminal event of every program and has
\* marked the run complete
Consumed == fdone /\ \A p \in Progs : entries[p].state = StateOf(p)

\* C37: on the progress screen with no picker open, the front end keeps a
\* read of the channel outstanding, or has its result still to handle, as
\* long as some program is displayed in a non-terminal state; and when every task ends and the operator completes
\* every picker, the front end of a started run eventually has consumed each
\* program's terminal event and set done.
C37_FrontEndCompletes ==
    /\ []((screen = "progress" /\ activePicker = 0
             /\ \E p \in Progs : entries[p].state \notin TerminalStates) =>
               reading \/ inbox # <<>>)
    /\ (TasksEnd /\ OperatorCompletes) => []((next >= 1) => <>Consumed)

\* the run is marked complete after a picker was completed and the program
\* it was opened for is displayed as done
C37_Witness ==
    /\ fdone
    /\ \E p \in Progs : answered[p].done /\ entries[p].state = StateDone

\* the programs the front end displays as started and not yet finished
ViewInFlight ==
    { p \in Progs : entries[p].state \notin ({StatePending} \cup TerminalStates) }

\* C38: a task gives its slot back only after its terminal event has been put
\* on the channel, so the front end, which takes the events in channel order,
\* never displays more than workerCount programs as started and not finished.
C38_ViewBound ==
    /\ [](Cardinality(ViewInFlight) <= workerCount)
    /\ [][ \A p \in Progs :
             (sem' = sem - 1 /\ pc'[p] = "released" /\ pc[p] # "released") =>
               /\ StateOf(p) \in TerminalStates
               /\ emitted'[p] = emitted[p]
         ]_vars

\* with more programs than slots, the front end displays workerCount programs
\* in flight, the last of the list among them
C38_Witness ==
    /\ N > workerCount
    /\ Cardinality(ViewInFlight) = workerCount
    /\ N \in ViewInFlight

\* C39: two tasks of a run publish a link of the same name, and the
\* destination was free or a symbolic link when the run began: however the
\* Lstat, Remove and Symlink steps of the two calls interleave, both calls
\* succeed and the destination is afterwards a symbolic link to one of the
\* two sources.
C39_ConcurrentLinks ==
    \A p, q \in Progs :
      \A i \in 1..Len(linked[p]) : \A j \in 1..Len(linked[q]) :
        LET n == linked[p][i].bin.Dst IN
        (/\ p < q
         /\ N = 2
         /\ "link" \notin world.faults
         /\ linked[q][j].bin.Dst = n
         /\ world.binDir0[n].kind \in {"absent", "symlink"}) =>
           /\ linked[p][i].err = NoErr
           /\ linked[q][j].err = NoErr
           /\ binDir[n] \in { Symlink(LinkSource(p, linked[p][i].bin)),
                               Symlink(LinkSource(q, linked[q][j].bin)) }

\* C40: slots are granted in the order of the selected list: a program holds
\* or has held a slot only when the program before it in the list has got
\* one, and each grant goes to the first program still waiting.
C40_SlotOrder ==
    /\ [](\A p \in Progs : (p > 1 /\ pc[p] # "waiting") => pc[p - 1] # "waiting")
    /\ [][ \A p \in Progs :
             (pc[p] = "waiting" /\ pc'[p] # "waiting") =>
               /\ sem' = sem + 1
               /\ \A q \in Progs : pc[q] = "waiting" => q >= p
         ]_vars

\* the last program of a list longer than the pool has just been given a
\* slot that another program gave back
C40_Witness ==
    /\ N > workerCount
    /\ pc[N] = "admitted"
    /\ \E q \in Progs : pc[q] = "exited"

====
